---- MODULE Spec2Model ----
(***************************************************************************)
(* Model of the qm-agent core: the CNF->DNF transformer with its scalar    *)
(* and SIMD subsumption kernels, the Quine-McCluskey solver facade and the *)
(* classic reducer with Petrick's method.                                  *)
(*                                                                         *)
(* Machine words are modelled as sets of bit positions: a u64 is a subset  *)
(* of 0..63, `a | b` is union, `a ^ b` the symmetric difference,           *)
(* count_ones the cardinality, `a << k` moves every position up by k and   *)
(* drops the positions that leave the word.                                *)
(***************************************************************************)
EXTENDS Integers, Sequences, FiniteSets, TLC

(***************************************************************************)
(* Bounds of the model.                                                    *)
(***************************************************************************)
\* number of variables of the exhaustively enumerated CNFs
NSmall == 3
\* largest length of the exhaustively enumerated kernel lists
MaxListLen == 2
\* largest number of clauses of the exhaustively enumerated CNFs
MaxClauses == 3
\* largest number of minterms and don't-cares given to QMSolver::solve
MaxTerms == 4

(***************************************************************************)
(* Word helpers.                                                           *)
(***************************************************************************)
test_bit(data, pos) == pos \in data

Bit(pos) == {pos}

\* `x as uN`: truncation to the low w bits
Truncate(x, w) == {b \in x : b < w}

\* byte k (little endian) of a word, as a set of positions 0..7
ByteOf(x, k) == {b - 8 * k : b \in {c \in x : c >= 8 * k /\ c < 8 * k + 8}}

RECURSIVE Pow2(_)
Pow2(k) == IF k = 0 THEN 1 ELSE 2 * Pow2(k - 1)

Xor(a, b) == (a \ b) \cup (b \ a)

\* `x << k` in a word of w bits
Shl(x, k, w) == {b + k : b \in {c \in x : c + k < w}}

\* `x >> k`
Shr(x, k) == {b - k : b \in {c \in x : c >= k}}

MaxBit(x) == CHOOSE b \in x : \A c \in x : c <= b

\* a < b as unsigned numbers
LessWord(a, b) == a # b /\ MaxBit(Xor(a, b)) \in b

RECURSIVE SortWords(_)
\* a set of words as the sequence of increasing numeric value
SortWords(S) ==
  IF S = {} THEN <<>>
  ELSE LET m == CHOOSE x \in S : \A y \in S \ {x} : LessWord(x, y)
       IN <<m>> \o SortWords(S \ {m})

RECURSIVE SeqToSet(_)
SeqToSet(s) == IF s = <<>> THEN {} ELSE {Head(s)} \cup SeqToSet(Tail(s))

(***************************************************************************)
(* OptimizedFor, encodings and CPU features.                               *)
(***************************************************************************)
OptimizedFor == {"AutoDetect", "X64", "Avx512_64bits", "Avx512_32bits",
                 "Avx512_16bits", "Avx512_8bits", "Avx2_64bits"}

Encodings == {"Enc16", "Enc32", "Enc64"}

Features == {"avx2", "avx512f", "avx512bw"}

max_bits(of) ==
  CASE of = "AutoDetect" -> 64
    [] of = "Avx512_8bits" -> 8
    [] of = "Avx512_16bits" -> 16
    [] of = "Avx512_32bits" -> 32
    [] OTHER -> 64

MAX_VARS(e) ==
  CASE e = "Enc16" -> 16
    [] e = "Enc32" -> 32
    [] OTHER -> 64

\* a detection that keeps the 8-bit lanes up to 16 variables
detect_best_narrow(n_variables, features) ==
  IF "avx512f" \in features /\ "avx512bw" \in features
  THEN IF n_variables <= 16 THEN "Avx512_8bits"
       ELSE IF n_variables <= 32 THEN "Avx512_32bits"
       ELSE "Avx512_64bits"
  ELSE IF "avx2" \in features /\ n_variables <= 64 THEN "Avx2_64bits"
  ELSE "X64"

detect_best(n_variables, features) ==
  IF "avx512f" \in features /\ "avx512bw" \in features
  THEN IF n_variables <= 8 THEN "Avx512_8bits"
       ELSE IF n_variables <= 16 THEN "Avx512_16bits"
       ELSE IF n_variables <= 32 THEN "Avx512_32bits"
       ELSE "Avx512_64bits"
  ELSE IF "avx2" \in features /\ n_variables <= 64 THEN "Avx2_64bits"
  ELSE "X64"

(***************************************************************************)
(* Subsumption kernels.  A kernel answers [del, add, ill]: the indices     *)
(* (0-based) to delete, whether z is to be added, and whether the CPU      *)
(* trapped on an instruction it does not have.                             *)
(***************************************************************************)
KernelResult(d, a) == [del |-> d, add |-> a, ill |-> FALSE]

IllegalInstruction == [del |-> <<>>, add |-> FALSE, ill |-> TRUE]

RECURSIVE x64_loop_keeps_deletions(_, _, _, _)
\* a loop that answers skip without clearing the indices it has collected
x64_loop_keeps_deletions(result_dnf_next, z, index, index_to_delete) ==
  IF index > Len(result_dnf_next) THEN KernelResult(index_to_delete, TRUE)
  ELSE LET q == result_dnf_next[index]
           p == z \cup q
       IN IF p = z THEN KernelResult(index_to_delete, FALSE)
          ELSE x64_loop_keeps_deletions(result_dnf_next, z, index + 1,
                                        IF p = q THEN Append(index_to_delete, index - 1)
                                        ELSE index_to_delete)

RECURSIVE x64_loop(_, _, _, _)
\* `for (index, &q) in result_dnf_next.iter().enumerate()` from index on
x64_loop(result_dnf_next, z, index, index_to_delete) ==
  IF index > Len(result_dnf_next) THEN KernelResult(index_to_delete, TRUE)
  ELSE LET q == result_dnf_next[index]
           p == z \cup q
       IN IF p = z THEN KernelResult(<<>>, FALSE)
          ELSE x64_loop(result_dnf_next, z, index + 1,
                        IF p = q THEN Append(index_to_delete, index - 1)
                        ELSE index_to_delete)

optimized_for_x64(result_dnf_next, z) == x64_loop(result_dnf_next, z, 1, <<>>)

RECURSIVE handle_tail_x64(_, _, _, _)
\* start_index is 0-based; on a hit the caller's index_to_delete is kept
handle_tail_x64(result_dnf_next, z, start_index, index_to_delete) ==
  IF start_index >= Len(result_dnf_next) THEN KernelResult(index_to_delete, TRUE)
  ELSE LET q == result_dnf_next[start_index + 1]
           p == z \cup q
       IN IF p = z THEN KernelResult(index_to_delete, FALSE)
          ELSE handle_tail_x64(result_dnf_next, z, start_index + 1,
                               IF p = q THEN Append(index_to_delete, start_index)
                               ELSE index_to_delete)

RECURSIVE MaskIndices(_, _, _, _)
\* the set bits i of a lane mask, as the indices base + i, in increasing i
MaskIndices(mask, i, lanes, base) ==
  IF i >= lanes THEN <<>>
  ELSE (IF i \in mask THEN <<base + i>> ELSE <<>>) \o MaskIndices(mask, i + 1, lanes, base)

RECURSIVE simd_blocks(_, _, _, _, _, _)
\* the block loop shared by the kernels whose lanes are the elements
simd_blocks(result_dnf_next, z, NB, block, n_blocks, index_to_delete) ==
  IF block >= n_blocks
  THEN handle_tail_x64(result_dnf_next, z, n_blocks * Pow2(NB), index_to_delete)
  ELSE LET lanes == Pow2(NB)
           q(i) == result_dnf_next[block * lanes + i + 1]
           mask1 == {i \in 0..(lanes - 1) : (z \cup q(i)) = z}
           mask2 == {i \in 0..(lanes - 1) : (z \cup q(i)) = q(i)}
       IN IF mask1 # {} THEN KernelResult(<<>>, FALSE)
          ELSE simd_blocks(result_dnf_next, z, NB, block + 1, n_blocks,
                           index_to_delete \o MaskIndices(mask2, 0, lanes, block * lanes))

simd_lanes(result_dnf_next, z, NB) ==
  simd_blocks(result_dnf_next, z, NB, 0, Len(result_dnf_next) \div Pow2(NB), <<>>)

RECURSIVE epi8_blocks(_, _, _, _, _)
\* the 8-bit kernel reads the u64 slice itself: block b is the 64 bytes of
\* the elements 8b .. 8b+7, lane i being byte (i mod 8) of element 8b + i div 8
epi8_blocks(result_dnf_next, z, block, n_blocks, index_to_delete) ==
  IF block >= n_blocks
  THEN handle_tail_x64(result_dnf_next, z, n_blocks * 64, index_to_delete)
  ELSE LET z2 == Truncate(z, 8)
           q(i) == ByteOf(result_dnf_next[8 * block + (i \div 8) + 1], i % 8)
           mask1 == {i \in 0..63 : (z2 \cup q(i)) = z2}
           mask2 == {i \in 0..63 : (z2 \cup q(i)) = q(i)}
       IN IF mask1 # {} THEN KernelResult(<<>>, FALSE)
          ELSE epi8_blocks(result_dnf_next, z, block + 1, n_blocks,
                           index_to_delete \o MaskIndices(mask2, 0, 64, block * 64))

optimized_for_avx512_epi8(result_dnf_next, z) ==
  epi8_blocks(result_dnf_next, z, 0, Len(result_dnf_next) \div 64, <<>>)

optimized_for_avx512_epi16_internal(result_dnf_next, z, features) ==
  \* _mm512_cmpeq_epi16_mask is an AVX512BW instruction
  IF Len(result_dnf_next) \div 32 > 0 /\ "avx512bw" \notin features
  THEN IllegalInstruction
  ELSE simd_lanes(result_dnf_next, z, 5)

optimized_for_avx512_epi32_internal(result_dnf_next, z) == simd_lanes(result_dnf_next, z, 4)

optimized_for_avx512_epi64_internal(result_dnf_next, z) == simd_lanes(result_dnf_next, z, 3)

optimized_for_avx2_epi64_internal(result_dnf_next, z) == simd_lanes(result_dnf_next, z, 2)

TruncateAll(s, w) == [i \in 1..Len(s) |-> Truncate(s[i], w)]

run_avx512_64bits(result_dnf_next, z, features) ==
  IF "avx512f" \in features
  THEN optimized_for_avx512_epi64_internal(result_dnf_next, z)
  ELSE optimized_for_x64(result_dnf_next, z)

run_avx512_32bits(result_dnf_next, z, features) ==
  IF "avx512f" \in features
  THEN optimized_for_avx512_epi32_internal(TruncateAll(result_dnf_next, 32), Truncate(z, 32))
  ELSE optimized_for_x64(result_dnf_next, z)

run_avx512_16bits(result_dnf_next, z, features) ==
  IF "avx512f" \in features
  THEN optimized_for_avx512_epi16_internal(TruncateAll(result_dnf_next, 16), Truncate(z, 16), features)
  ELSE optimized_for_x64(result_dnf_next, z)

run_avx512_8bits(result_dnf_next, z, features) ==
  IF "avx512f" \in features /\ "avx512bw" \in features
  THEN optimized_for_avx512_epi8(result_dnf_next, z)
  ELSE optimized_for_x64(result_dnf_next, z)

run_avx2_64bits(result_dnf_next, z, features) ==
  IF "avx2" \in features
  THEN optimized_for_avx2_epi64_internal(result_dnf_next, z)
  ELSE optimized_for_x64(result_dnf_next, z)

run_optimized(of, result_dnf_next, z, features) ==
  CASE of = "X64" -> optimized_for_x64(result_dnf_next, z)
    [] of = "Avx512_64bits" -> run_avx512_64bits(result_dnf_next, z, features)
    [] of = "Avx512_32bits" -> run_avx512_32bits(result_dnf_next, z, features)
    [] of = "Avx512_16bits" -> run_avx512_16bits(result_dnf_next, z, features)
    [] of = "Avx512_8bits" -> run_avx512_8bits(result_dnf_next, z, features)
    [] of = "Avx2_64bits" -> run_avx2_64bits(result_dnf_next, z, features)

(***************************************************************************)
(* The distributive sweep of one clause.                                   *)
(***************************************************************************)
I32_MAX == 2147483647

RECURSIVE compact_reversed(_, _, _)
\* a compaction that returns the kept terms in the opposite order
compact_reversed(result_dnf_next, delete_set, idx) ==
  IF idx >= Len(result_dnf_next) THEN <<>>
  ELSE compact_reversed(result_dnf_next, delete_set, idx + 1)
       \o (IF idx \in delete_set THEN <<>> ELSE <<result_dnf_next[idx + 1]>>)

RECURSIVE compact(_, _, _)
\* result_dnf_next.into_iter().enumerate().filter(idx not in delete_set)
compact(result_dnf_next, delete_set, idx) ==
  IF idx >= Len(result_dnf_next) THEN <<>>
  ELSE (IF idx \in delete_set THEN <<>> ELSE <<result_dnf_next[idx + 1]>>)
       \o compact(result_dnf_next, delete_set, idx + 1)

\* a push that leaves the terms z subsumes in the list
push_z_without_delete(result_dnf_next, z, k) ==
  IF k.add THEN Append(result_dnf_next, z) ELSE result_dnf_next

\* the body of `if add_z { ... }`
push_z(result_dnf_next, z, k) ==
  IF k.add
  THEN Append(IF k.del # <<>> THEN compact(result_dnf_next, SeqToSet(k.del), 0)
              ELSE result_dnf_next, z)
  ELSE result_dnf_next

SweepState(next, ill, smallest, max) ==
  [result_dnf_next |-> next, ill |-> ill, smallest_cnf_size |-> smallest, max_size |-> max]

RECURSIVE impl_for_y(_, _, _, _, _, _)
\* `for &y in &result_dnf` of convert_cnf_to_dnf_impl
impl_for_y(of, features, result_dnf, x, yi, st) ==
  IF st.ill \/ yi > Len(result_dnf) THEN st
  ELSE LET z == x \cup result_dnf[yi]
           k == run_optimized(of, st.result_dnf_next, z, features)
       IN impl_for_y(of, features, result_dnf, x, yi + 1,
            IF k.ill THEN [st EXCEPT !.ill = TRUE]
            ELSE [st EXCEPT !.result_dnf_next = push_z(st.result_dnf_next, z, k)])

RECURSIVE impl_for_pos(_, _, _, _, _, _, _)
\* `for pos in 0..n_bits` of convert_cnf_to_dnf_impl
impl_for_pos(of, features, result_dnf, disj_val, nbits, pos, st) ==
  IF st.ill \/ pos >= nbits THEN st
  ELSE impl_for_pos(of, features, result_dnf, disj_val, nbits, pos + 1,
         IF test_bit(disj_val, pos)
         THEN impl_for_y(of, features, result_dnf, Bit(pos), 1, st)
         ELSE st)

RECURSIVE first_clause(_, _, _)
\* the singletons of the first clause, in increasing bit position
first_clause(disj_val, nbits, i) ==
  IF i >= nbits THEN <<>>
  ELSE (IF test_bit(disj_val, i) THEN <<Bit(i)>> ELSE <<>>) \o first_clause(disj_val, nbits, i + 1)

\* one iteration of `for &disjunction in cnf` of convert_cnf_to_dnf_impl
impl_clause(of, features, result_dnf, disj_val, nbits, is_first) ==
  IF is_first THEN SweepState(first_clause(disj_val, nbits, 0), FALSE, 0, 0)
  ELSE impl_for_pos(of, features, result_dnf, disj_val, nbits, 0, SweepState(<<>>, FALSE, 0, 0))

RECURSIVE method1_for_y(_, _, _, _, _, _, _)
\* `for &y in &result_dnf` of convert_cnf_to_dnf_minimal_private_method1;
\* remaining is n_disjunctions - n_disjunction_done
method1_for_y(of, features, result_dnf, x, remaining, yi, st) ==
  IF st.ill \/ yi > Len(result_dnf) THEN st
  ELSE LET z == x \cup result_dnf[yi]
           conjunction_size == Cardinality(z)
           smaller == conjunction_size < st.smallest_cnf_size
           smallest == IF smaller THEN conjunction_size ELSE st.smallest_cnf_size
           max == IF smaller THEN conjunction_size + remaining ELSE st.max_size
           consider_z == ~(max < conjunction_size)
           k == run_optimized(of, st.result_dnf_next, z, features)
           st1 == [st EXCEPT !.smallest_cnf_size = smallest, !.max_size = max]
       IN method1_for_y(of, features, result_dnf, x, remaining, yi + 1,
            IF ~consider_z THEN st1
            ELSE IF k.ill THEN [st1 EXCEPT !.ill = TRUE]
            ELSE [st1 EXCEPT !.result_dnf_next = push_z(st.result_dnf_next, z, k)])

RECURSIVE method1_for_pos(_, _, _, _, _, _, _, _)
method1_for_pos(of, features, result_dnf, disj_val, nbits, remaining, pos, st) ==
  IF st.ill \/ pos >= nbits THEN st
  ELSE method1_for_pos(of, features, result_dnf, disj_val, nbits, remaining, pos + 1,
         IF test_bit(disj_val, pos)
         THEN method1_for_y(of, features, result_dnf, Bit(pos), remaining, 1, st)
         ELSE st)

\* one iteration of `for &disjunction in cnf` of the early-pruning sweep
method1_clause(of, features, result_dnf, disj_val, nbits, n_disjunctions, done) ==
  IF done = 0 THEN SweepState(first_clause(disj_val, nbits, 0), FALSE, 0, 0)
  ELSE method1_for_pos(of, features, result_dnf, disj_val, nbits, n_disjunctions - done, 0,
                       SweepState(<<>>, FALSE, I32_MAX, 0))

RECURSIVE MinSize(_)
\* the smallest count_ones of a non-empty list
MinSize(dnf) ==
  IF Len(dnf) = 1 THEN Cardinality(dnf[1])
  ELSE LET m == MinSize(Tail(dnf))
           c == Cardinality(Head(dnf))
       IN IF c < m THEN c ELSE m

\* the tail of convert_cnf_to_dnf_minimal: keep the smallest conjunctions
select_smallest(dnf) ==
  IF dnf = <<>> THEN dnf
  ELSE LET smallest_cnf_size == MinSize(dnf)
       IN SelectSeq(dnf, LAMBDA conjunction : Cardinality(conjunction) = smallest_cnf_size)

(***************************************************************************)
(* The whole sweep, clause after clause.                                   *)
(***************************************************************************)
RECURSIVE sweep_from(_, _, _, _, _, _, _)
\* `for &disjunction in cnf` from clause number done on
sweep_from(of, features, clauses, nbits, early, done, st) ==
  IF st.ill \/ done >= Len(clauses) THEN st
  ELSE sweep_from(of, features, clauses, nbits, early, done + 1,
         IF early
         THEN method1_clause(of, features, st.result_dnf_next, clauses[done + 1], nbits,
                             Len(clauses), done)
         ELSE impl_clause(of, features, st.result_dnf_next, clauses[done + 1], nbits, done = 0))

convert_cnf_to_dnf_impl(clauses, nbits, of, features) ==
  sweep_from(of, features, clauses, nbits, FALSE, 0, SweepState(<<>>, FALSE, 0, 0))

convert_cnf_to_dnf_minimal_private_method1(clauses, nbits, of, features) ==
  sweep_from(of, features, clauses, nbits, TRUE, 0, SweepState(<<>>, FALSE, 0, 0))

(***************************************************************************)
(* Encodings of the Quine-McCluskey side.                                  *)
(***************************************************************************)
\* the width of E::Value
VALUE_BITS(e) ==
  CASE e = "Enc16" -> 32
    [] e = "Enc32" -> 64
    [] OTHER -> 128

DK_OFFSET(e) ==
  CASE e = "Enc16" -> 16
    [] e = "Enc32" -> 32
    [] OTHER -> 64

\* the length of the bucket array of a MintermSet
BUCKET_WIDTH(e) ==
  CASE e = "Enc16" -> 33
    [] e = "Enc32" -> 65
    [] OTHER -> 129

(***************************************************************************)
(* MintermSet: `data`, one Vec per bit count, and `max_bit_count`.         *)
(***************************************************************************)
MintermSet_new(e) ==
  [data |-> [bit_count \in 0..(BUCKET_WIDTH(e) - 1) |-> <<>>], max_bit_count |-> 0]

\* value.count_ones() counts the ones of the whole value
add(set, value) ==
  LET bit_count == Cardinality(value)
  IN [data |-> [set.data EXCEPT ![bit_count] = Append(@, value)],
      max_bit_count |-> IF bit_count > set.max_bit_count THEN bit_count
                        ELSE set.max_bit_count]

RECURSIVE add_all(_, _)
add_all(set, values) ==
  IF values = <<>> THEN set ELSE add_all(add(set, Head(values)), Tail(values))

(***************************************************************************)
(* Implicant: bits (most significant variable first) and the minterms it   *)
(* covers.                                                                 *)
(***************************************************************************)
from_minterm(minterm, variables) ==
  [bits |-> [i \in 1..variables |-> IF (variables - i) \in minterm THEN "One" ELSE "Zero"],
   covered_minterms |-> <<minterm>>]

covers_minterm(implicant, minterm) ==
  \E k \in 1..Len(implicant.covered_minterms) : implicant.covered_minterms[k] = minterm

Implicant_is_gray_code(a, b) == Cardinality(Xor(a, b)) = 1

Implicant_replace_complements(a, b, variables, e) ==
  a \cup b \cup Shl(Xor(a, b), variables, VALUE_BITS(e))

to_raw_encoding(implicant, variables, e) ==
  LET data == {variables - i : i \in {j \in 1..variables : implicant.bits[j] = "One"}}
      dont_care == {variables - i : i \in {j \in 1..variables : implicant.bits[j] = "DontCare"}}
  IN data \cup Shl(dont_care, variables, VALUE_BITS(e))

from_raw_encoding(raw, variables) ==
  LET data == Truncate(raw, variables)
      dont_care_mask == Shr(raw, variables)
  IN [bits |-> [i \in 1..variables |->
                  IF (variables - i) \in dont_care_mask THEN "DontCare"
                  ELSE IF (variables - i) \in data THEN "One"
                  ELSE "Zero"],
      covered_minterms |-> <<>>]

(***************************************************************************)
(* QuineMcCluskey::find_prime_implicants, one pass of its while loop.      *)
(***************************************************************************)
\* a pair finder that never looks at the last element of group2
find_gray_code_pairs_short(group1, group2, raw_encodings) ==
  {p \in group1 \X (group2 \ {MaxBit(group2 \cup {0})}) :
     Cardinality(Xor(raw_encodings[p[1]], raw_encodings[p[2]])) = 1}

\* the pairs (i, j) of group1 x group2 whose raw encodings differ in one bit
find_gray_code_pairs(group1, group2, raw_encodings) ==
  {p \in group1 \X group2 : Cardinality(Xor(raw_encodings[p[1]], raw_encodings[p[2]])) = 1}

\* groups[weight]: the indices whose data bits have that many ones
weight_group(raw_encodings, variables, weight) ==
  {idx \in 1..Len(raw_encodings) : Cardinality(Truncate(raw_encodings[idx], variables)) = weight}

\* every pair found by `for weight in 0..max_weight`
level_pairs(raw_encodings, variables) ==
  UNION {find_gray_code_pairs(weight_group(raw_encodings, variables, weight),
                              weight_group(raw_encodings, variables, weight + 1),
                              raw_encodings) : weight \in 0..(variables - 1)}

\* the pass on current_level: the keys of next_level_map, the covered
\* minterms of each key and the indices marked used
level_pass(current_level, variables, e) ==
  LET raw_encodings == [i \in 1..Len(current_level) |->
                          to_raw_encoding(current_level[i], variables, e)]
      pairs == level_pairs(raw_encodings, variables)
      raw_combined(p) ==
        Implicant_replace_complements(raw_encodings[p[1]], raw_encodings[p[2]], variables, e)
      keys == {raw_combined(p) : p \in pairs}
      covered(key) ==
        SortWords(UNION {SeqToSet(current_level[p[1]].covered_minterms)
                           \cup SeqToSet(current_level[p[2]].covered_minterms) :
                         p \in {q \in pairs : raw_combined(q) = key}})
  IN [keys |-> keys,
      covered |-> [key \in keys |-> covered(key)],
      used |-> {p[1] : p \in pairs} \cup {p[2] : p \in pairs}]

\* `for (raw_value, covered) in next_level_map`, the map being iterated in
\* the given order of its keys
next_level_of(pass, order, variables) ==
  [k \in 1..Len(order) |->
     [bits |-> from_raw_encoding(order[k], variables).bits,
      covered_minterms |-> pass.covered[order[k]]]]

RECURSIVE without_indices(_, _, _)
\* the elements of a list whose index is not in dropped, in their order
without_indices(list, dropped, i) ==
  IF i > Len(list) THEN <<>>
  ELSE (IF i \in dropped THEN <<>> ELSE <<list[i]>>) \o without_indices(list, dropped, i + 1)

\* the orders in which a hash map with these keys can be iterated
IterationOrders(keys) ==
  {order \in [1..Cardinality(keys) -> keys] :
     \A i, j \in 1..Cardinality(keys) : i # j => order[i] # order[j]}

\* the level before the first pass
first_level(minterms_, dont_cares_, variables) ==
  [i \in 1..(Len(minterms_) + Len(dont_cares_)) |->
     from_minterm((minterms_ \o dont_cares_)[i], variables)]

(***************************************************************************)
(* QuineMcCluskey::find_essential_prime_implicants, after its call of      *)
(* find_prime_implicants.                                                  *)
(***************************************************************************)
\* coverage_map[minterm]: one entry per (occurrence of the minterm, covering prime)
coverage_count(all_pis, minterms_, minterm) ==
  Cardinality({pr \in (1..Len(minterms_)) \X (1..Len(all_pis)) :
                 minterms_[pr[1]] = minterm /\ covers_minterm(all_pis[pr[2]], minterm)})

essential_indices(all_pis, minterms_) ==
  {pi_idx \in 1..Len(all_pis) :
     \E k \in 1..Len(minterms_) :
        /\ covers_minterm(all_pis[pi_idx], minterms_[k])
        /\ coverage_count(all_pis, minterms_, minterms_[k]) = 1}

essential_of(all_pis, minterms_) ==
  without_indices(all_pis, (1..Len(all_pis)) \ essential_indices(all_pis, minterms_), 1)

(***************************************************************************)
(* PetricksMethod::find_minimal_cover.                                     *)
(***************************************************************************)
RECURSIVE find_minimal_cover_scalar(_, _, _, _, _)
\* `for pi in &self.prime_implicants` from index i on
find_minimal_cover_scalar(prime_implicants_, minterms_, i, covered_minterms, selected) ==
  IF i > Len(prime_implicants_) THEN selected
  ELSE LET pi == prime_implicants_[i]
           covers_new == \E k \in 1..Len(minterms_) :
                            /\ covers_minterm(pi, minterms_[k])
                            /\ minterms_[k] \notin covered_minterms
           covered1 == IF covers_new THEN covered_minterms \cup SeqToSet(pi.covered_minterms)
                       ELSE covered_minterms
           selected1 == IF covers_new THEN Append(selected, pi) ELSE selected
       IN IF Cardinality(covered1) >= Len(minterms_) THEN selected1
          ELSE find_minimal_cover_scalar(prime_implicants_, minterms_, i + 1, covered1, selected1)

\* should_use_simd asks for 1024 checks (primes x minterms) of at most four
\* bits and the `simd` cargo feature; below that the scalar loop runs
find_minimal_cover(prime_implicants_, minterms_) ==
  IF prime_implicants_ = <<>> THEN <<>>
  ELSE find_minimal_cover_scalar(prime_implicants_, minterms_, 1, {}, <<>>)

(***************************************************************************)
(* QMSolver: formatting of the result.                                     *)
(***************************************************************************)
variable_names == <<"A", "B", "C", "D", "E", "F", "G", "H">>

RECURSIVE format_bits(_, _)
\* the literals of an implicant from bit i on: <<name>> or <<name, "'">>
format_bits(implicant, i) ==
  IF i > Len(implicant.bits) THEN <<>>
  ELSE (CASE implicant.bits[i] = "Zero" -> <<variable_names[i], "'">>
          [] implicant.bits[i] = "One" -> <<variable_names[i]>>
          [] OTHER -> <<>>) \o format_bits(implicant, i + 1)

format_single_implicant(implicant) ==
  IF format_bits(implicant, 1) = <<>> THEN <<"1">> ELSE format_bits(implicant, 1)

format_implicants(implicants) ==
  [i \in 1..Len(implicants) |-> format_single_implicant(implicants[i])]

\* the terms that are joined by " + "
format_expression(implicants) ==
  IF implicants = <<>> THEN <<<<"0">>>> ELSE format_implicants(implicants)

(***************************************************************************)
(* The classic reducer: implicants are words, data in the low DK_OFFSET    *)
(* bits and the don't-care mask above them.                                *)
(***************************************************************************)
is_gray_code(a, b) == Cardinality(Xor(a, b)) = 1

replace_complements(a, b, e) ==
  LET neq == Xor(a, b)
  IN a \cup neq \cup Shl(neq, DK_OFFSET(e), VALUE_BITS(e))

\* the products of the gray pairs among the positions of two lists
products_of(terms_i, terms_j, e) ==
  {replace_complements(terms_i[i], terms_j[j], e) :
     <<i, j>> \in {pr \in (1..Len(terms_i)) \X (1..Len(terms_j)) :
                     is_gray_code(terms_i[pr[1]], terms_j[pr[2]])}}

\* a pass that combines the first gray pair only
reduce_minterms_classic_first_pair(minterms_, e) ==
  LET max == Len(minterms_)
      gray == {pr \in (1..max) \X (1..max) :
                 pr[1] < pr[2] /\ is_gray_code(minterms_[pr[1]], minterms_[pr[2]])}
      first == {pr \in gray : \A other \in gray :
                  pr[1] < other[1] \/ (pr[1] = other[1] /\ pr[2] <= other[2])}
      checked == {pr[1] : pr \in first} \cup {pr[2] : pr \in first}
      new_minterms == {replace_complements(minterms_[pr[1]], minterms_[pr[2]], e) : pr \in first}
                        \cup {minterms_[i] : i \in (1..max) \ checked}
  IN SortWords(new_minterms)

\* all pairs i < j; the result is the BTreeSet of the products and of the
\* terms no pair checked
reduce_minterms_classic(minterms_, e) ==
  LET max == Len(minterms_)
      gray == {pr \in (1..max) \X (1..max) :
                 pr[1] < pr[2] /\ is_gray_code(minterms_[pr[1]], minterms_[pr[2]])}
      checked == {pr[1] : pr \in gray} \cup {pr[2] : pr \in gray}
      new_minterms == {replace_complements(minterms_[pr[1]], minterms_[pr[2]], e) : pr \in gray}
                        \cup {minterms_[i] : i \in (1..max) \ checked}
  IN SortWords(new_minterms)

\* MintermSet::get after add_all: the values with bit_count ones, in the
\* order they were added
MintermSet_get(minterms_, bit_count) ==
  SelectSeq(minterms_, LAMBDA value : Cardinality(value) = bit_count)

RECURSIVE get_max_bit_count(_)
get_max_bit_count(minterms_) ==
  IF minterms_ = <<>> THEN 0
  ELSE LET m == get_max_bit_count(Tail(minterms_))
           c == Cardinality(Head(minterms_))
       IN IF c > m THEN c ELSE m

\* checked_x[bit_count]: the positions of a bucket that formed a pair with
\* the bucket below or the bucket above
checked_x(minterms_, bit_count) ==
  LET here == MintermSet_get(minterms_, bit_count)
      above == MintermSet_get(minterms_, bit_count + 1)
      below == IF bit_count = 0 THEN <<>> ELSE MintermSet_get(minterms_, bit_count - 1)
  IN {i \in 1..Len(here) :
        \/ \E j \in 1..Len(above) : is_gray_code(here[i], above[j])
        \/ \E j \in 1..Len(below) : is_gray_code(below[j], here[i])}

RECURSIVE unchecked_from(_, _, _)
\* the terms no pair checked, bucket after bucket
unchecked_from(minterms_, bit_count, max_bit_count) ==
  IF bit_count > max_bit_count THEN <<>>
  ELSE without_indices(MintermSet_get(minterms_, bit_count), checked_x(minterms_, bit_count), 1)
       \o unchecked_from(minterms_, bit_count + 1, max_bit_count)

\* adjacent buckets only; the result is the sorted products followed by the
\* unchecked terms
reduce_minterms(minterms_, e) ==
  LET max_bit_count == get_max_bit_count(minterms_)
      new_minterms == UNION {products_of(MintermSet_get(minterms_, bit_count),
                                         MintermSet_get(minterms_, bit_count + 1), e) :
                             bit_count \in 0..(max_bit_count - 1)}
  IN SortWords(new_minterms) \o unchecked_from(minterms_, 0, max_bit_count)

(***************************************************************************)
(* reduce_minterms_with_early_pruning.                                     *)
(***************************************************************************)
\* a pruning that also drops the k at distance 2 of j
impossible_j_eager(minterms_j, j) ==
  {k \in (j + 1)..Len(minterms_j) : Cardinality(Xor(minterms_j[j], minterms_j[k])) >= 2}

\* impossible_j[j]: the k > j of the upper bucket more than two bits from j
impossible_j(minterms_j, j) ==
  {k \in (j + 1)..Len(minterms_j) : Cardinality(Xor(minterms_j[j], minterms_j[k])) > 2}

RECURSIVE early_for_j(_, _, _, _)
\* `for j in 0..max_j` for one term_i: the j it combines with
early_for_j(term_i, minterms_j, j, done) ==
  IF j > Len(minterms_j) THEN {}
  ELSE IF j \notin done /\ is_gray_code(term_i, minterms_j[j])
  THEN {j} \cup early_for_j(term_i, minterms_j, j + 1, done \cup impossible_j(minterms_j, j))
  ELSE early_for_j(term_i, minterms_j, j + 1, done)

\* the pairs (i, j) of positions of two adjacent buckets that are combined
early_pairs(minterms_i, minterms_j) ==
  {pr \in (1..Len(minterms_i)) \X (1..Len(minterms_j)) :
     pr[2] \in early_for_j(minterms_i[pr[1]], minterms_j, 1, {})}

\* the result is the BTreeSet of the products and of the terms not checked
reduce_minterms_with_early_pruning(minterms_, e) ==
  LET max_bit_count == get_max_bit_count(minterms_)
      bucket(bit_count) == MintermSet_get(minterms_, bit_count)
      pairs(bit_count) == early_pairs(bucket(bit_count), bucket(bit_count + 1))
      products == UNION {{replace_complements(bucket(bit_count)[pr[1]],
                                              bucket(bit_count + 1)[pr[2]], e) :
                            pr \in pairs(bit_count)} : bit_count \in 0..(max_bit_count - 1)}
      checked(bit_count) ==
        {pr[1] : pr \in pairs(bit_count)}
          \cup (IF bit_count = 0 THEN {} ELSE {pr[2] : pr \in pairs(bit_count - 1)})
      unchecked == UNION {{bucket(bit_count)[i] :
                             i \in (1..Len(bucket(bit_count))) \ checked(bit_count)} :
                          bit_count \in 0..max_bit_count}
  IN SortWords(products \cup unchecked)

(***************************************************************************)
(* reduce_qm as a function of its arguments (use_petrick_simplify = false). *)
(***************************************************************************)
\* a loop that stops after its first pass
while_not_fixed_point_one_pass(minterms_, e, use_classic_method_) ==
  IF use_classic_method_ THEN reduce_minterms_classic(minterms_, e)
  ELSE reduce_minterms(minterms_, e)

RECURSIVE while_not_fixed_point(_, _, _)
\* `while !fixed_point`: passes until one returns its own input
while_not_fixed_point(minterms_, e, use_classic_method_) ==
  LET next_minterms == IF use_classic_method_ THEN reduce_minterms_classic(minterms_, e)
                       ELSE reduce_minterms(minterms_, e)
  IN IF minterms_ = next_minterms THEN next_minterms
     ELSE while_not_fixed_point(next_minterms, e, use_classic_method_)

reduce_qm(minterms_input_, n_variables, e, use_classic_method_) ==
  IF n_variables > MAX_VARS(e) THEN <<>>
  ELSE while_not_fixed_point(minterms_input_, e, use_classic_method_)

(***************************************************************************)
(* convert_cnf_to_dnf_minimal as a function of its arguments: the DNF it   *)
(* returns, what it writes to stderr and whether the CPU trapped.          *)
(***************************************************************************)
convert_cnf_to_dnf_minimal(clauses, nbits, e, opt, early, features) ==
  IF nbits > MAX_VARS(e)
  THEN [dnf |-> <<>>, stderr |-> "n_bits exceeds encoding maximum", ill |-> FALSE]
  ELSE IF opt # "AutoDetect" /\ nbits > max_bits(opt)
  THEN [dnf |-> <<>>, stderr |-> "n_bits exceeds OptimizedFor maximum", ill |-> FALSE]
  ELSE LET level == IF opt = "AutoDetect" THEN detect_best(nbits, features) ELSE opt
           st == IF early
                 THEN convert_cnf_to_dnf_minimal_private_method1(clauses, nbits, level, features)
                 ELSE convert_cnf_to_dnf_impl(clauses, nbits, level, features)
       IN [dnf |-> select_smallest(st.result_dnf_next), stderr |-> "none", ill |-> st.ill]

(***************************************************************************)
(* The petrick module.  A PITable1 maps a prime to a set of minterms, a    *)
(* PITable2 a minterm to a set of primes; both are BTreeMaps of HashSets,  *)
(* here functions from the keys to sets.                                   *)
(***************************************************************************)
\* the number of primes petricks_method can translate to bits of a u64
MAX_PETRICK_VARIABLES == 64

\* a map without the keys in `removed`
remove(pi_table_, removed) ==
  [key \in (DOMAIN pi_table_) \ removed |-> pi_table_[key]]

\* the table of the other direction, with a key for every value that occurs
convert(pi_table_) ==
  LET all_minterms == UNION {pi_table_[pi] : pi \in DOMAIN pi_table_}
  IN [mt \in all_minterms |-> {pi \in DOMAIN pi_table_ : mt \in pi_table_[pi]}]

\* `pi.to_u64() >> E::DK_OFFSET` is a shift of a u64: by 64 it overflows,
\* which panics with overflow checks and shifts by 64 mod 64 = 0 without
shift_overflows(e) == DK_OFFSET(e) >= 64

create_prime_implicant_table(prime_implicants_, minterms_, e) ==
  LET data_mask == IF DK_OFFSET(e) = 16 THEN 0..15 ELSE 0..31
      to_u64(pi) == Truncate(pi, 64)
      shifted(pi) == IF shift_overflows(e) THEN Shr(to_u64(pi), DK_OFFSET(e) % 64)
                     ELSE Shr(to_u64(pi), DK_OFFSET(e))
      dont_know(pi) == Truncate(shifted(pi), VALUE_BITS(e))
      q(pi) == (data_mask \cap pi) \cup dont_know(pi)
  IN [pi \in SeqToSet(prime_implicants_) |->
        {mt \in SeqToSet(minterms_) : (mt \cup dont_know(pi)) = q(pi)}]

\* the table without the rows of the selected primes, and the selected
\* primes (a HashSet)
identify_primary_essential_pi2(pi_table_) ==
  LET selected_pi == UNION {pi_table_[mt] : mt \in {m \in DOMAIN pi_table_ :
                                                      Cardinality(pi_table_[m]) = 1}}
      mt_to_be_deleted == {mt \in DOMAIN pi_table_ : pi_table_[mt] \cap selected_pi # {}}
  IN [pi_table_out |-> remove(pi_table_, mt_to_be_deleted), selected_pi |-> selected_pi]

subset(sub_set, super_set) == sub_set \subseteq super_set

\* every row some other row dominates, the dominating row deleted or not
row_dominance_for_unguarded(pi_table2, keys, i, mt_to_be_deleted) ==
  mt_to_be_deleted \cup
    {mt2 \in DOMAIN pi_table2 :
       \E mt1 \in DOMAIN pi_table2 : mt1 # mt2 /\ subset(pi_table2[mt1], pi_table2[mt2])}

RECURSIVE row_dominance_for(_, _, _, _)
\* `for (mt1, pi_set1) in pi_table2` from position i of the sorted keys on
row_dominance_for(pi_table2, keys, i, mt_to_be_deleted) ==
  IF i > Len(keys) THEN mt_to_be_deleted
  ELSE row_dominance_for(pi_table2, keys, i + 1,
         IF keys[i] \in mt_to_be_deleted THEN mt_to_be_deleted
         ELSE mt_to_be_deleted \cup
              {mt2 \in DOMAIN pi_table2 :
                 mt2 # keys[i] /\ subset(pi_table2[keys[i]], pi_table2[mt2])})

row_dominance(pi_table2) ==
  remove(pi_table2, row_dominance_for(pi_table2, SortWords(DOMAIN pi_table2), 1, {}))

column_dominance(pi_table2) ==
  LET pi_table1_ == convert(pi_table2)
      all_pi == SortWords(DOMAIN pi_table1_)
      s == Len(all_pi)
      pairs == {pr \in (1..s) \X (1..s) : pr[1] < pr[2]}
      q1(pr) == subset(pi_table1_[all_pi[pr[1]]], pi_table1_[all_pi[pr[2]]])
      q2(pr) == subset(pi_table1_[all_pi[pr[2]]], pi_table1_[all_pi[pr[1]]])
      pi_to_be_deleted == {all_pi[pr[1]] : pr \in {p \in pairs : q1(p) /\ ~q2(p)}}
                            \cup {all_pi[pr[2]] : pr \in {p \in pairs : q2(p) /\ ~q1(p)}}
  IN [mt \in DOMAIN pi_table2 |-> pi_table2[mt] \ pi_to_be_deleted]

RECURSIVE translations_for(_, _, _, _)
\* translation2 as the list of primes by variable_id, for every order in
\* which the HashSets of the rows can be iterated
translations_for(pi_table2, keys, i, translation2) ==
  IF i > Len(keys) THEN {translation2}
  ELSE LET fresh == pi_table2[keys[i]] \ SeqToSet(translation2)
       IN UNION {translations_for(pi_table2, keys, i + 1, translation2 \o order) :
                   order \in IterationOrders(fresh)}

translations(pi_table2) == translations_for(pi_table2, SortWords(DOMAIN pi_table2), 1, <<>>)

RECURSIVE sorted_translation_for(_, _, _, _)
\* the translation when every HashSet is iterated in increasing order
sorted_translation_for(pi_table2, keys, i, translation2) ==
  IF i > Len(keys) THEN translation2
  ELSE sorted_translation_for(pi_table2, keys, i + 1,
         translation2 \o SortWords(pi_table2[keys[i]] \ SeqToSet(translation2)))

RECURSIVE translate_back(_, _, _)
\* `for i in 0..64`: the primes of the bits of a conjunction
translate_back(conj, translation2, i) ==
  IF i >= 64 THEN <<>>
  ELSE (IF i \in conj /\ i < Len(translation2) THEN <<translation2[i + 1]>> ELSE <<>>)
       \o translate_back(conj, translation2, i + 1)

\* petricks_method with the translation the iteration order gave
petricks_method(pi_table2, translation2, features) ==
  LET n_variables == Cardinality(UNION {pi_table2[mt] : mt \in DOMAIN pi_table2})
      keys == SortWords(DOMAIN pi_table2)
      id(pi) == (CHOOSE k \in 1..Len(translation2) : translation2[k] = pi) - 1
      clauses == [k \in 1..Len(keys) |-> {id(pi) : pi \in pi_table2[keys[k]]}]
      e == IF n_variables <= 16 THEN "Enc16"
           ELSE IF n_variables <= 32 THEN "Enc32" ELSE "Enc64"
      smallest_conjunctions ==
        convert_cnf_to_dnf_minimal(clauses, n_variables, e, "AutoDetect", FALSE, features)
  IN IF n_variables > MAX_PETRICK_VARIABLES
     THEN [result |-> <<>>, stderr |-> "too many prime implicants", ill |-> FALSE]
     ELSE [result |-> [c \in 1..Len(smallest_conjunctions.dnf) |->
                         translate_back(smallest_conjunctions.dnf[c], translation2, 0)],
           stderr |-> smallest_conjunctions.stderr,
           ill |-> smallest_conjunctions.ill]

\* the end of petrick_simplify: the residue, then the essentials
petrick_residue(pi_table7, use_cnf2dnf, petricks, primary, secondary) ==
  LET residue == IF DOMAIN pi_table7 = {} THEN <<>>
                 ELSE IF use_cnf2dnf
                 THEN (IF petricks.result # <<>> THEN petricks.result[1] ELSE <<>>)
                 ELSE SortWords(UNION {pi_table7[mt] : mt \in DOMAIN pi_table7})
  IN residue \o primary \o secondary

(***************************************************************************)
(* State.                                                                  *)
(***************************************************************************)
VARIABLES
  \* the CPU the process runs on (is_x86_feature_detected!) and the
  \* encoding E the entry point is instantiated with
  cpu_features, E,
  \* a call of the CNF->DNF transformer: its CNF, n_bits, requested level
  \* OPT and entry point
  cnf, n_bits, OPT, api,
  \* the running call
  pc, of, n_disjunction_done, result_dnf, ret, stderr,
  \* a call of one subsumption kernel
  L, z, variant, answer,
  \* the caller's update of the list with the answer: the list after it and
  \* whether it has run
  L_next, pushed,
  \* a call of QMSolver::solve or of reduce_qm: its arguments
  entry, variables, minterms, dont_cares, minterms_input, use_classic_method,
  \* the running call: find_prime_implicants' current_level and prime list,
  \* the fixed-point flag of reduce_qm
  qpc, current_level, found, fixed_point, iteration,
  \* what solve has computed, the QMResult it returns, what reduce_qm
  \* returns and writes to stderr
  prime_implicants, essential_pis, minimal_cover, qm_result, reduced, qm_stderr,
  \* a call of E::find_gray_code_pairs: its arguments, position and result
  gray_group1, gray_group2, gray_encodings, gray_pc, gray_pairs,
  \* a MintermSet: its buckets, its cached maximum and whether it exists
  ms_data, ms_max_bit_count, ms_pc,
  \* a call of petrick_simplify: its arguments, whether the build checks
  \* arithmetic overflow, its position, its tables, the essential primes of
  \* both rounds, what it returns and writes to stderr
  pt_prime_implicants, pt_minterms, use_petrick_cnf2dnf, overflow_checks,
  pt_pc, pi_table1, pi_table, primary_essential_pi, secondary_essential_pi,
  essential_pi, pt_stderr, dominance_input,
  \* a call of convert_cnf_to_dnf_with_names: its argument, its position, the
  \* Vec it returns, the error value it returns and what it writes to stderr
  named_cnf, named_pc, named_dnf, named_error, named_stderr,
  \* a call of simplify_branches: its argument, its position, the analysis,
  \* the truth table, the conditions of the outputs and the Err it returns
  branch_set, sb_pc, analysis, truth_table, simplified_conditions, sb_error

env_vars == <<cpu_features, E>>

cnf_vars == <<cnf, n_bits, OPT, api, pc, of, n_disjunction_done, result_dnf, ret, stderr>>

kernel_vars == <<L, z, variant, answer, L_next, pushed>>

qm_vars == <<entry, variables, minterms, dont_cares, minterms_input, use_classic_method,
             qpc, current_level, found, fixed_point, iteration,
             prime_implicants, essential_pis, minimal_cover, qm_result, reduced, qm_stderr>>

gray_vars == <<gray_group1, gray_group2, gray_encodings, gray_pc, gray_pairs>>

ms_vars == <<ms_data, ms_max_bit_count, ms_pc>>

pt_vars == <<pt_prime_implicants, pt_minterms, use_petrick_cnf2dnf, overflow_checks,
             pt_pc, pi_table1, pi_table, primary_essential_pi, secondary_essential_pi,
             essential_pi, pt_stderr, dominance_input>>

named_vars == <<named_cnf, named_pc, named_dnf, named_error, named_stderr>>

sb_vars == <<branch_set, sb_pc, analysis, truth_table, simplified_conditions, sb_error>>

api_vars == <<named_vars, sb_vars>>

aux_vars == <<gray_vars, ms_vars, pt_vars, api_vars>>

vars == <<env_vars, cnf_vars, kernel_vars, qm_vars, aux_vars>>

Apis == {"convert_cnf_to_dnf", "convert_cnf_to_dnf_minimal_early_prune",
         "convert_cnf_to_dnf_minimal"}

early_prune == api = "convert_cnf_to_dnf_minimal_early_prune"

\* the feature sets of the x86-64 processors: none of the extensions, AVX2,
\* AVX-512F without AVX-512BW (Knights Landing), and all of them
CpuModels == {{}, {"avx2"}, {"avx2", "avx512f"}, {"avx2", "avx512f", "avx512bw"}}

(***************************************************************************)
(* Inputs.                                                                 *)
(***************************************************************************)
RECURSIVE SeqsUpTo(_, _)
\* the sequences over S of length at most k
SeqsUpTo(S, k) ==
  IF k = 0 THEN {<<>>}
  ELSE LET shorter == SeqsUpTo(S, k - 1)
       IN shorter \cup {Append(s, x) : s \in {t \in shorter : Len(t) = k - 1}, x \in S}

SmallCnfs == SeqsUpTo(SUBSET (0..(NSmall - 1)), MaxClauses)

\* "at least four of eight variables": every clause has five literals, the
\* DNF is the seventy terms of four literals
ThresholdVars == 8
ThresholdClauseSize == 5
ThresholdCnf ==
  SortWords({c \in SUBSET (0..(ThresholdVars - 1)) : Cardinality(c) = ThresholdClauseSize})

\* (x0 | x1 | x2 | x3)(x0 | x4 | x5 | x6)(x0 | x7 | x8 | x9 | x10): the term
\* x0 next to thirty-six terms of three literals
StarVars == 11
StarCnf == <<{0, 1, 2, 3}, {0, 4, 5, 6}, {0, 7, 8, 9, 10}>>

GrayIdle ==
  /\ gray_group1 = <<>>
  /\ gray_group2 = <<>>
  /\ gray_encodings = <<>>
  /\ gray_pc = "idle"
  /\ gray_pairs = <<>>

MsIdle ==
  /\ ms_data = <<>>
  /\ ms_max_bit_count = 0
  /\ ms_pc = "idle"

PtIdle ==
  /\ pt_prime_implicants = <<>>
  /\ pt_minterms = <<>>
  /\ use_petrick_cnf2dnf = FALSE
  /\ overflow_checks = FALSE
  /\ pt_pc = "idle"
  /\ pi_table1 = <<>>
  /\ pi_table = <<>>
  /\ primary_essential_pi = <<>>
  /\ secondary_essential_pi = <<>>
  /\ essential_pi = <<>>
  /\ pt_stderr = "none"
  /\ dominance_input = <<>>

NamedIdle ==
  /\ named_cnf = <<>>
  /\ named_pc = "idle"
  /\ named_dnf = <<>>
  /\ named_error = "none"
  /\ named_stderr = "none"

SbIdle ==
  /\ branch_set = <<>>
  /\ sb_pc = "idle"
  /\ analysis = <<>>
  /\ truth_table = <<>>
  /\ simplified_conditions = <<>>
  /\ sb_error = "none"

ApiIdle == NamedIdle /\ SbIdle

AuxIdle == GrayIdle /\ MsIdle /\ PtIdle /\ ApiIdle

QmIdle ==
  /\ entry = "idle"
  /\ variables = 0
  /\ minterms = <<>>
  /\ dont_cares = <<>>
  /\ minterms_input = <<>>
  /\ use_classic_method = FALSE
  /\ qpc = "idle"
  /\ current_level = <<>>
  /\ found = <<>>
  /\ fixed_point = FALSE
  /\ iteration = 0
  /\ prime_implicants = <<>>
  /\ essential_pis = <<>>
  /\ minimal_cover = <<>>
  /\ qm_result = <<>>
  /\ reduced = <<>>
  /\ qm_stderr = "none"

KernelIdle ==
  /\ L = <<>>
  /\ z = {}
  /\ variant = "idle"
  /\ answer = KernelResult(<<>>, FALSE)
  /\ L_next = <<>>
  /\ pushed = FALSE

CnfCallInit ==
  /\ pc = "start"
  /\ of = "AutoDetect"
  /\ n_disjunction_done = 0
  /\ result_dnf = <<>>
  /\ ret = <<>>
  /\ stderr = "none"

\* every small CNF under every level and entry point
InitSmall ==
  /\ cnf \in SmallCnfs
  /\ n_bits = NSmall
  /\ E = "Enc16"
  /\ OPT \in OptimizedFor
  /\ api \in Apis
  /\ cpu_features \in {{}, Features}

\* the capacity boundary of every encoding and level
InitBoundary ==
  /\ cnf = <<{0, 1}, {1, 2}>>
  /\ n_bits \in {8, 9, 16, 17, 32, 33, 64, 65}
  /\ E \in Encodings
  /\ OPT \in OptimizedFor
  /\ api \in Apis
  /\ cpu_features \in CpuModels

\* lists long enough for the block loop of every kernel
InitThreshold ==
  /\ cnf = ThresholdCnf
  /\ n_bits = ThresholdVars
  /\ E = "Enc16"
  /\ OPT \in OptimizedFor
  /\ api \in Apis
  /\ cpu_features = Features

InitStar ==
  /\ cnf = StarCnf
  /\ n_bits = StarVars
  /\ E \in {"Enc16", "Enc64"}
  /\ OPT \in OptimizedFor
  /\ api \in Apis
  /\ cpu_features \in CpuModels

InitCnf ==
  /\ InitSmall \/ InitBoundary \/ InitThreshold \/ InitStar
  /\ CnfCallInit
  /\ KernelIdle
  /\ QmIdle
  /\ AuxIdle

(***************************************************************************)
(* convert_cnf_to_dnf / convert_cnf_to_dnf_minimal.                        *)
(***************************************************************************)
\* the two validations and the resolution of AutoDetect
Validate ==
  /\ pc = "start"
  /\ IF n_bits > MAX_VARS(E)
     THEN /\ stderr' = "n_bits exceeds encoding maximum"
          /\ ret' = <<>>
          /\ pc' = "done"
          /\ of' = of
     ELSE IF OPT # "AutoDetect" /\ n_bits > max_bits(OPT)
     THEN /\ stderr' = "n_bits exceeds OptimizedFor maximum"
          /\ ret' = <<>>
          /\ pc' = "done"
          /\ of' = of
     ELSE /\ of' = (IF OPT = "AutoDetect" THEN detect_best(n_bits, cpu_features) ELSE OPT)
          /\ pc' = "sweep"
          /\ UNCHANGED <<ret, stderr>>
  /\ UNCHANGED <<cnf, n_bits, OPT, api, n_disjunction_done, result_dnf>>
  /\ UNCHANGED <<env_vars, kernel_vars, qm_vars, aux_vars>>

\* one iteration of `for &disjunction in cnf`
Clause ==
  /\ pc = "sweep"
  /\ n_disjunction_done < Len(cnf)
  /\ LET disj_val == cnf[n_disjunction_done + 1]
         st == IF early_prune
               THEN method1_clause(of, cpu_features, result_dnf, disj_val, n_bits,
                                   Len(cnf), n_disjunction_done)
               ELSE impl_clause(of, cpu_features, result_dnf, disj_val, n_bits,
                                n_disjunction_done = 0)
     IN IF st.ill
        THEN /\ pc' = "killed"
             /\ UNCHANGED <<result_dnf, n_disjunction_done>>
        ELSE /\ result_dnf' = st.result_dnf_next
             /\ n_disjunction_done' = n_disjunction_done + 1
             /\ pc' = pc
  /\ UNCHANGED <<cnf, n_bits, OPT, api, of, ret, stderr>>
  /\ UNCHANGED <<env_vars, kernel_vars, qm_vars, aux_vars>>

\* the end of the loop: the plain entry point returns the list, the minimal
\* ones keep the smallest conjunctions
Return ==
  /\ pc = "sweep"
  /\ n_disjunction_done = Len(cnf)
  /\ ret' = (IF api = "convert_cnf_to_dnf" THEN result_dnf ELSE select_smallest(result_dnf))
  /\ pc' = "done"
  /\ UNCHANGED <<cnf, n_bits, OPT, api, of, n_disjunction_done, result_dnf, stderr>>
  /\ UNCHANGED <<env_vars, kernel_vars, qm_vars, aux_vars>>

NextCnf == Validate \/ Clause \/ Return

SpecCnf == InitCnf /\ [][NextCnf]_vars

\* what the caller of convert_cnf_to_dnf / convert_cnf_to_dnf_minimal holds
\* once the call is over: the functions return Vec<u64>, a process killed by
\* an illegal instruction returns nothing
Outcome ==
  CASE pc = "done" -> "Vec"
    [] pc = "killed" -> "SIGILL"
    [] OTHER -> "running"

(***************************************************************************)
(* Properties of the CNF->DNF transformer.                                 *)
(***************************************************************************)
PlainCall == api = "convert_cnf_to_dnf"

\* the call passed both validations
Admitted == n_bits <= MAX_VARS(E) /\ (OPT = "AutoDetect" \/ n_bits <= max_bits(OPT))

\* the variables that occur in the CNF
CnfVariables == UNION {cnf[i] : i \in 1..Len(cnf)}

\* an assignment is the set of the variables that are true
CnfSatisfied(a) == \A i \in 1..Len(cnf) : cnf[i] \cap a # {}

DnfSatisfied(dnf, a) == \E i \in 1..Len(dnf) : dnf[i] \subseteq a

Antichain(dnf) == \A i, j \in 1..Len(dnf) : i # j => ~(dnf[i] \subseteq dnf[j])

\* C1: for every CNF, the empty one and those with an empty clause included,
\* and every assignment, the CNF is satisfied iff some term returned by
\* cnf_to_dnf is satisfied.
C1_SemanticEquivalence ==
  (pc = "done" /\ PlainCall /\ Admitted) =>
    \A a \in SUBSET CnfVariables : CnfSatisfied(a) <=> DnfSatisfied(ret, a)

\* C5: the list cnf_to_dnf holds after each clause, and the list it
\* returns, is an antichain: no term is a subset of, or equal to, a term at
\* another index.
C5_Antichain ==
  (PlainCall /\ n_bits <= MAX_VARS(E)) => Antichain(result_dnf) /\ Antichain(ret)

\* C5 witness: a call that went through several clauses and returned at
\* least three terms.
C5_Witness ==
  /\ pc = "done"
  /\ PlainCall
  /\ Len(cnf) >= 2
  /\ Len(ret) >= 3
  /\ ret = result_dnf

\* C6: minimal mode with early pruning returns the set of terms the
\* reference path returns, which is the set of the terms of cnf_to_dnf of
\* minimum popcount.
C6_EarlyPruningEqualsReference ==
  (pc \in {"done", "killed"} /\ early_prune /\ Admitted) =>
    LET reference == convert_cnf_to_dnf_impl(cnf, n_bits, of, cpu_features)
    IN IF pc = "killed" THEN reference.ill
       ELSE /\ ~reference.ill
            /\ SeqToSet(ret) = SeqToSet(select_smallest(reference.result_dnf_next))

\* C8: cnf_to_dnf returns the same sequence of terms under every encoding
\* and every optimisation level that admits n, the sequence of the scalar
\* level.
C8_SameSequenceEveryLevel ==
  (pc \in {"done", "killed"} /\ PlainCall /\ Admitted) =>
    /\ pc = "done"
    /\ ret = convert_cnf_to_dnf_impl(cnf, n_bits, "X64", cpu_features).result_dnf_next

\* C10: a call with n_variables > N_max(E) reports EncodingCapacityExceeded
\* as an error value, neither aborting nor returning a successful result,
\* and a call with n_variables = N_max(E) succeeds.
C10_EncodingCapacityExceeded ==
  /\ (pc \in {"done", "killed"} /\ n_bits > MAX_VARS(E)) =>
       Outcome = "Err(EncodingCapacityExceeded)"
  /\ (pc \in {"done", "killed"} /\ n_bits = MAX_VARS(E) /\ Admitted) =>
       Outcome = "Vec" /\ stderr = "none"

\* C17: a call with a pinned level Avx512_W and n_variables > W, under an
\* encoding that admits n_variables, returns the error
\* OptimizationLevelExceeded; a returned Vec is not an error.
C17_OptimizationLevelExceeded ==
  (/\ pc \in {"done", "killed"}
   /\ OPT \in {"Avx512_8bits", "Avx512_16bits", "Avx512_32bits", "Avx512_64bits"}
   /\ n_bits <= MAX_VARS(E)
   /\ n_bits > max_bits(OPT)) =>
    Outcome = "Err(OptimizationLevelExceeded)"

\* C29: for every n_variables <= 64 and every CPU feature set, AutoDetect
\* is resolved to a concrete level whose lane width is at least
\* n_variables, and the sweep (which calls the dispatcher) never runs with
\* AutoDetect.
C29_AutoDetectResolvesWideEnough ==
  /\ pc = "start" =>
        \A n \in 0..64 : \A features \in SUBSET Features :
           /\ detect_best(n, features) \in OptimizedFor \ {"AutoDetect"}
           /\ max_bits(detect_best(n, features)) >= n
  /\ pc \in {"sweep", "killed"} =>
        /\ of \in OptimizedFor \ {"AutoDetect"}
        /\ OPT = "AutoDetect" => of = detect_best(n_bits, cpu_features)
        /\ max_bits(of) >= n_bits

\* AutoDetect resolved at the upper end of a lane width, the sweep running
C29_Witness ==
  /\ pc = "sweep"
  /\ OPT = "AutoDetect"
  /\ n_bits = 16
  /\ of = "Avx512_16bits"
  /\ n_disjunction_done > 0

(***************************************************************************)
(* The subsumption kernels on their own: one call of one level's kernel    *)
(* on a list L and a candidate z.                                          *)
(***************************************************************************)
CnfIdle ==
  /\ cnf = <<>>
  /\ n_bits = 0
  /\ OPT = "AutoDetect"
  /\ api = "convert_cnf_to_dnf"
  /\ pc = "idle"
  /\ of = "AutoDetect"
  /\ n_disjunction_done = 0
  /\ result_dnf = <<>>
  /\ ret = <<>>
  /\ stderr = "none"

\* every short list, antichain or not
SmallLists == SeqsUpTo(SUBSET (0..(NSmall - 1)), MaxListLen)

\* the terms of four of eight variables, an antichain of seventy
LaneVars == 8
LaneTermSize == 4
LaneTerms == SortWords({c \in SUBSET (0..(LaneVars - 1)) : Cardinality(c) = LaneTermSize})

\* lengths around the lane counts 4, 8, 16, 32 and 64 of the kernels
LaneLengths == {3, 4, 5, 8, 9, 16, 17, 32, 33, 64, 65, Len(LaneTerms)}

InitKernel ==
  /\ \/ /\ L \in SmallLists
        /\ z \in SUBSET (0..(NSmall - 1))
     \/ /\ L \in {SubSeq(LaneTerms, 1, k) : k \in LaneLengths}
        /\ z \in {c \in SUBSET (0..(LaneVars - 1)) :
                    Cardinality(c) \in (LaneTermSize - 1)..(LaneTermSize + 1)}
  /\ cpu_features \in CpuModels
  /\ E = "Enc64"
  /\ variant = "idle"
  /\ answer = KernelResult(<<>>, FALSE)
  /\ L_next = <<>>
  /\ pushed = FALSE
  /\ CnfIdle
  /\ QmIdle
  /\ AuxIdle

\* the X64 arm of run_optimized
CallX64 ==
  /\ variant = "idle"
  /\ variant' = "X64"
  /\ answer' = optimized_for_x64(L, z)
  /\ UNCHANGED <<L, z, L_next, pushed, env_vars, cnf_vars, qm_vars, aux_vars>>

\* the Avx512_64bits arm of run_optimized
CallAvx512_64bits ==
  /\ variant = "idle"
  /\ variant' = "Avx512_64bits"
  /\ answer' = run_avx512_64bits(L, z, cpu_features)
  /\ UNCHANGED <<L, z, L_next, pushed, env_vars, cnf_vars, qm_vars, aux_vars>>

\* the Avx512_32bits arm of run_optimized
CallAvx512_32bits ==
  /\ variant = "idle"
  /\ variant' = "Avx512_32bits"
  /\ answer' = run_avx512_32bits(L, z, cpu_features)
  /\ UNCHANGED <<L, z, L_next, pushed, env_vars, cnf_vars, qm_vars, aux_vars>>

\* the Avx512_16bits arm of run_optimized
CallAvx512_16bits ==
  /\ variant = "idle"
  /\ variant' = "Avx512_16bits"
  /\ answer' = run_avx512_16bits(L, z, cpu_features)
  /\ UNCHANGED <<L, z, L_next, pushed, env_vars, cnf_vars, qm_vars, aux_vars>>

\* the Avx512_8bits arm of run_optimized
CallAvx512_8bits ==
  /\ variant = "idle"
  /\ variant' = "Avx512_8bits"
  /\ answer' = run_avx512_8bits(L, z, cpu_features)
  /\ UNCHANGED <<L, z, L_next, pushed, env_vars, cnf_vars, qm_vars, aux_vars>>

\* the Avx2_64bits arm of run_optimized
CallAvx2_64bits ==
  /\ variant = "idle"
  /\ variant' = "Avx2_64bits"
  /\ answer' = run_avx2_64bits(L, z, cpu_features)
  /\ UNCHANGED <<L, z, L_next, pushed, env_vars, cnf_vars, qm_vars, aux_vars>>

\* the caller's `if add_z { ... }` with the answer of the kernel
PushZ ==
  /\ variant # "idle"
  /\ ~answer.ill
  /\ ~pushed
  /\ L_next' = push_z(L, z, answer)
  /\ pushed' = TRUE
  /\ UNCHANGED <<L, z, variant, answer, env_vars, cnf_vars, qm_vars, aux_vars>>

NextKernel ==
  \/ PushZ
  \/ CallX64
  \/ CallAvx512_64bits
  \/ CallAvx512_32bits
  \/ CallAvx512_16bits
  \/ CallAvx512_8bits
  \/ CallAvx2_64bits

SpecKernel == InitKernel /\ [][NextKernel]_vars

\* C7: on every list and every candidate that fits the lanes, each SIMD
\* variant of the kernel returns the skip/add decision and the set of
\* deletion indices of the scalar kernel.
C7_KernelsAgreeWithScalar ==
  (variant # "idle") =>
    LET scalar == optimized_for_x64(L, z)
    IN /\ ~answer.ill
       /\ answer.add = scalar.add
       /\ SeqToSet(answer.del) = SeqToSet(scalar.del)

\* the instruction sets the kernel of a level executes
kernel_instructions(level) ==
  CASE level \in {"Avx512_64bits", "Avx512_32bits"} -> {"avx512f"}
    [] level \in {"Avx512_16bits", "Avx512_8bits"} -> {"avx512f", "avx512bw"}
    [] level = "Avx2_64bits" -> {"avx2"}
    [] OTHER -> {}

\* C16: on every CPU, a pinned AVX-512 or AVX2 level whose kernel uses
\* instructions the CPU lacks does not fail and decides as the scalar
\* kernel does: the same skip/add answer and, when z is added, the same
\* deletions, so that the sweep returns what the scalar level returns.
C16_MissingInstructionsFallBackToScalar ==
  (variant # "idle" /\ ~(kernel_instructions(variant) \subseteq cpu_features)) =>
    LET scalar == optimized_for_x64(L, z)
    IN /\ ~answer.ill
       /\ answer.add = scalar.add
       /\ answer.add => answer.del = scalar.del

\* the 0-based indices i with z a subset of list[i + 1], increasing
SupersetIndices(list, candidate) ==
  SelectSeq([i \in 1..Len(list) |-> i - 1], LAMBDA i : candidate \subseteq list[i + 1])

\* C25: the scalar kernel answers skip with an empty deletion list iff some
\* q of L is a subset of z (q = z included); otherwise it answers add and
\* its deletion list is the indices i with z a subset of L[i], each once, in
\* increasing order.
C25_ScalarKernelContract ==
  variant = "X64" =>
    /\ ~answer.ill
    /\ IF \E i \in 1..Len(L) : L[i] \subseteq z
       THEN ~answer.add /\ answer.del = <<>>
       ELSE answer.add /\ answer.del = SupersetIndices(L, z)

\* a skip on a list that holds supersets of z before the subset, and an add
\* that deletes two terms
C25_Witness ==
  /\ variant = "X64"
  /\ \/ /\ ~answer.add
        /\ \E i, j \in 1..Len(L) : i < j /\ z \subseteq L[i] /\ L[i] # z /\ L[j] \subseteq z
     \/ /\ answer.add
        /\ Len(answer.del) >= 2

\* the positions of L whose 0-based index is not in the deletion list
KeptPositions ==
  SelectSeq([i \in 1..Len(L) |-> i], LAMBDA i : (i - 1) \notin SeqToSet(answer.del))

\* C30: when the kernel answers add, the list after the update is the
\* previous elements whose indices are not in the deletion list, in their
\* previous order, followed by z; when it answers skip the list is unchanged.
C30_UpdateIsStableCompaction ==
  pushed =>
    IF answer.add
    THEN L_next = [k \in 1..Len(KeptPositions) |-> L[KeptPositions[k]]] \o <<z>>
    ELSE L_next = L

\* an update that deletes terms and keeps at least two others
C30_Witness ==
  /\ pushed
  /\ answer.add
  /\ answer.del # <<>>
  /\ Len(KeptPositions) >= 2
  /\ L_next = [k \in 1..Len(KeptPositions) |-> L[KeptPositions[k]]] \o <<z>>

(***************************************************************************)
(* QMSolver::solve and reduce_qm.                                          *)
(***************************************************************************)
\* the minterms of n variables
Minterms(n) == SUBSET (0..(n - 1))

Reverse(list) == [i \in 1..Len(list) |-> list[Len(list) + 1 - i]]

QmCallInit ==
  /\ found = <<>>
  /\ fixed_point = FALSE
  /\ iteration = 0
  /\ prime_implicants = <<>>
  /\ essential_pis = <<>>
  /\ minimal_cover = <<>>
  /\ qm_result = <<>>
  /\ reduced = <<>>
  /\ qm_stderr = "none"

\* solve on every pair of disjoint sets of minterms and don't-cares with at
\* most MaxTerms elements together
InitSolve ==
  /\ entry = "solve"
  /\ variables = NSmall
  /\ E = "Enc16"
  /\ \E M \in SUBSET Minterms(NSmall) : \E D \in SUBSET (Minterms(NSmall) \ M) :
        /\ Cardinality(M \cup D) <= MaxTerms
        /\ minterms = SortWords(M)
        /\ dont_cares = SortWords(D)
  /\ minterms_input = <<>>
  /\ use_classic_method = FALSE
  /\ qpc = "find_prime_implicants"
  /\ current_level = first_level(minterms, dont_cares, variables)

\* reduce_qm on every set of minterms, in increasing order, in decreasing
\* order and with every minterm twice, with both one-pass reducers
InitReduce ==
  /\ entry = "reduce_qm"
  /\ variables = NSmall
  /\ E \in Encodings
  /\ \E M \in SUBSET Minterms(NSmall) :
        minterms_input \in {SortWords(M), Reverse(SortWords(M)),
                            SortWords(M) \o Reverse(SortWords(M))}
  /\ use_classic_method \in BOOLEAN
  /\ minterms = <<>>
  /\ dont_cares = <<>>
  /\ qpc = "start"
  /\ current_level = <<>>

\* reduce_qm at the capacity of every encoding
InitReduceBoundary ==
  /\ entry = "reduce_qm"
  /\ variables \in {16, 17, 32, 33, 64, 65}
  /\ E \in Encodings
  /\ minterms_input = <<{}, {0}, {0, 1}>>
  /\ use_classic_method \in BOOLEAN
  /\ minterms = <<>>
  /\ dont_cares = <<>>
  /\ qpc = "start"
  /\ current_level = <<>>

InitQM ==
  /\ InitSolve \/ InitReduce \/ InitReduceBoundary
  /\ QmCallInit
  /\ cpu_features = {}
  /\ CnfIdle
  /\ KernelIdle
  /\ AuxIdle

\* one pass of the while loop of find_prime_implicants, in the first call
\* (by solve) or in the second (by find_essential_prime_implicants); the
\* pass ends by iterating next_level_map, a HashMap
PrimeLevel ==
  /\ qpc \in {"find_prime_implicants", "find_essential_prime_implicants"}
  /\ current_level # <<>>
  /\ LET pass == level_pass(current_level, variables, E)
     IN /\ \E order \in IterationOrders(pass.keys) :
              current_level' = next_level_of(pass, order, variables)
        /\ found' = found \o without_indices(current_level, pass.used, 1)
  /\ UNCHANGED <<iteration, entry, variables, minterms, dont_cares, minterms_input, use_classic_method,
                 qpc, fixed_point, prime_implicants, essential_pis, minimal_cover,
                 qm_result, reduced, qm_stderr>>
  /\ UNCHANGED <<env_vars, cnf_vars, kernel_vars, aux_vars>>

\* find_prime_implicants returns to solve, which calls
\* find_essential_prime_implicants, which starts by calling it again
PrimesFound ==
  /\ qpc = "find_prime_implicants"
  /\ current_level = <<>>
  /\ prime_implicants' = found
  /\ found' = <<>>
  /\ current_level' = first_level(minterms, dont_cares, variables)
  /\ qpc' = "find_essential_prime_implicants"
  /\ UNCHANGED <<iteration, entry, variables, minterms, dont_cares, minterms_input, use_classic_method,
                 fixed_point, essential_pis, minimal_cover, qm_result, reduced, qm_stderr>>
  /\ UNCHANGED <<env_vars, cnf_vars, kernel_vars, aux_vars>>

\* the rest of find_essential_prime_implicants
EssentialFound ==
  /\ qpc = "find_essential_prime_implicants"
  /\ current_level = <<>>
  /\ essential_pis' = essential_of(found, minterms)
  /\ qpc' = "find_minimal_cover"
  /\ UNCHANGED <<iteration, entry, variables, minterms, dont_cares, minterms_input, use_classic_method,
                 current_level, found, fixed_point, prime_implicants, minimal_cover,
                 qm_result, reduced, qm_stderr>>
  /\ UNCHANGED <<env_vars, cnf_vars, kernel_vars, aux_vars>>

\* the QMResult without its solution_steps
QMResult(cover, primes, essentials, minterms_, variables_) ==
  [minimized_expression |-> format_expression(cover),
   prime_implicants |-> format_implicants(primes),
   essential_prime_implicants |-> format_implicants(essentials),
   cost_original |-> Len(minterms_) * variables_,
   cost_minimized |-> Len(cover) * 2]

\* the rest of solve: the minimal cover and the formatted result
SolveReturn ==
  /\ qpc = "find_minimal_cover"
  /\ minimal_cover' = find_minimal_cover(prime_implicants, minterms)
  /\ qm_result' = QMResult(minimal_cover', prime_implicants, essential_pis, minterms, variables)
  /\ qpc' = "done"
  /\ UNCHANGED <<iteration, entry, variables, minterms, dont_cares, minterms_input, use_classic_method,
                 current_level, found, fixed_point, prime_implicants, essential_pis,
                 reduced, qm_stderr>>
  /\ UNCHANGED <<env_vars, cnf_vars, kernel_vars, aux_vars>>

\* the validation of reduce_qm
ReduceValidate ==
  /\ qpc = "start"
  /\ IF variables > MAX_VARS(E)
     THEN /\ qm_stderr' = "n_variables exceeds encoding maximum"
          /\ reduced' = <<>>
          /\ qpc' = "done"
          /\ minterms' = minterms
     ELSE /\ minterms' = minterms_input
          /\ qpc' = "reduce"
          /\ UNCHANGED <<reduced, qm_stderr>>
  /\ UNCHANGED <<iteration, entry, variables, dont_cares, minterms_input, use_classic_method,
                 current_level, found, fixed_point, prime_implicants, essential_pis,
                 minimal_cover, qm_result>>
  /\ UNCHANGED <<env_vars, cnf_vars, kernel_vars, aux_vars>>

\* one pass of `while !fixed_point`
ReducePass ==
  /\ qpc = "reduce"
  /\ ~fixed_point
  /\ LET next_minterms == IF use_classic_method THEN reduce_minterms_classic(minterms, E)
                          ELSE reduce_minterms(minterms, E)
     IN /\ fixed_point' = (minterms = next_minterms)
        /\ minterms' = next_minterms
  /\ iteration' = iteration + 1
  /\ UNCHANGED <<entry, variables, dont_cares, minterms_input, use_classic_method,
                 qpc, current_level, found, prime_implicants, essential_pis,
                 minimal_cover, qm_result, reduced, qm_stderr>>
  /\ UNCHANGED <<env_vars, cnf_vars, kernel_vars, aux_vars>>

\* reduce_qm returns the fixed point (use_petrick_simplify = false)
ReduceReturn ==
  /\ qpc = "reduce"
  /\ fixed_point
  /\ reduced' = minterms
  /\ qpc' = "done"
  /\ UNCHANGED <<iteration, entry, variables, minterms, dont_cares, minterms_input, use_classic_method,
                 current_level, found, fixed_point, prime_implicants, essential_pis,
                 minimal_cover, qm_result, qm_stderr>>
  /\ UNCHANGED <<env_vars, cnf_vars, kernel_vars, aux_vars>>

NextQM ==
  \/ PrimeLevel
  \/ PrimesFound
  \/ EssentialFound
  \/ SolveReturn
  \/ ReduceValidate
  \/ ReducePass
  \/ ReduceReturn

SpecQM == InitQM /\ [][NextQM]_vars

(***************************************************************************)
(* Properties of the Quine-McCluskey side.                                 *)
(***************************************************************************)
\* the assignment `minterm` makes the implicant true
Matches(bits, minterm) ==
  \A i \in 1..Len(bits) :
     bits[i] = "DontCare" \/ ((bits[i] = "One") <=> ((Len(bits) - i) \in minterm))

\* equal don't-care masks and data that differ in exactly one bit
Combinable(bits1, bits2) ==
  /\ \A i \in 1..Len(bits1) : (bits1[i] = "DontCare") <=> (bits2[i] = "DontCare")
  /\ Cardinality({i \in 1..Len(bits1) : bits1[i] # bits2[i]}) = 1

\* the same two notions on the words of the classic reducer
data_of(p) == Truncate(p, DK_OFFSET(E))

dc_of(p) == Shr(p, DK_OFFSET(E))

MatchesWord(p, minterm) == (minterm \cup dc_of(p)) = (data_of(p) \cup dc_of(p))

CombinableWords(p, q) == dc_of(p) = dc_of(q) /\ Cardinality(Xor(data_of(p), data_of(q))) = 1

SolveDone == entry = "solve" /\ qpc = "done"

ReduceDone == entry = "reduce_qm" /\ qpc = "done" /\ variables <= MAX_VARS(E)

\* C2: the cover solve selects is true on every minterm of M and false on
\* every assignment outside M and D; every minterm of M is covered by a
\* selected prime, also when don't-cares are given.
C2_CoverIsCorrect ==
  SolveDone =>
    LET CoverTrue(a) == \E k \in 1..Len(minimal_cover) : Matches(minimal_cover[k].bits, a)
    IN /\ \A k \in 1..Len(minterms) : CoverTrue(minterms[k])
       /\ \A a \in Minterms(variables) \ (SeqToSet(minterms) \cup SeqToSet(dont_cares)) :
             ~CoverTrue(a)

\* C3: the implicants the QM reducer returns (find_prime_implicants, and
\* reduce_qm with either one-pass reducer) cover every minterm of M, and no
\* two of them can be combined.
C3_PrimesCoverAndAreMaximal ==
  /\ (entry = "solve" /\ qpc \notin {"find_prime_implicants"}) =>
       /\ \A k \in 1..Len(minterms) :
             \E i \in 1..Len(prime_implicants) :
                /\ Matches(prime_implicants[i].bits, minterms[k])
                /\ covers_minterm(prime_implicants[i], minterms[k])
       /\ \A i, j \in 1..Len(prime_implicants) :
             ~Combinable(prime_implicants[i].bits, prime_implicants[j].bits)
  /\ ReduceDone =>
       /\ \A k \in 1..Len(minterms_input) :
             \E i \in 1..Len(reduced) : MatchesWord(reduced[i], minterms_input[k])
       /\ \A i, j \in 1..Len(reduced) : ~CombinableWords(reduced[i], reduced[j])

\* C3 witness: solve has found several primes for at least three minterms,
\* one of them the product of a combination.
C3_Witness ==
  /\ SolveDone
  /\ Len(minterms) >= 3
  /\ Len(prime_implicants) >= 2
  /\ \E i \in 1..Len(prime_implicants) :
        \E b \in 1..variables : prime_implicants[i].bits[b] = "DontCare"

\* C4: the cover returned by PetricksMethod::find_minimal_cover has minimum
\* size: no set of fewer primes of the list covers all the minterms.
C4_CoverIsMinimum ==
  SolveDone =>
    ~\E T \in SUBSET (1..Len(prime_implicants)) :
        /\ Cardinality(T) < Len(minimal_cover)
        /\ \A k \in 1..Len(minterms) :
              \E i \in T : covers_minterm(prime_implicants[i], minterms[k])

RECURSIVE find_prime_implicants_sorted(_, _, _, _)
\* find_prime_implicants when every map yields its keys in increasing order
find_prime_implicants_sorted(level, primes, variables_, e) ==
  IF level = <<>> THEN primes
  ELSE LET pass == level_pass(level, variables_, e)
       IN find_prime_implicants_sorted(next_level_of(pass, SortWords(pass.keys), variables_),
                                       primes \o without_indices(level, pass.used, 1),
                                       variables_, e)

\* the QMResult of that run
SortedResult ==
  LET primes == find_prime_implicants_sorted(first_level(minterms, dont_cares, variables),
                                             <<>>, variables, E)
  IN QMResult(find_minimal_cover(primes, minterms), primes, essential_of(primes, minterms),
              minterms, variables)

\* C9: for a fixed input solve returns the same QMResult on every run,
\* whatever order its hash maps are iterated in: the result of every run is
\* the result of the run that iterates them in increasing order of the keys.
C9_SolveIsDeterministic == SolveDone => qm_result = SortedResult

\* the patterns of a list of implicants
PatternsOf(implicants) == {implicants[i].bits : i \in 1..Len(implicants)}

\* the primes that are the only prime covering some minterm of M
UniquelyCovering(primes) ==
  {b \in primes :
     \E k \in 1..Len(minterms) :
        /\ Matches(b, minterms[k])
        /\ \A c \in primes \ {b} : ~Matches(c, minterms[k])}

\* C12: the essential prime implicants solve reports are exactly the prime
\* implicants that are the only prime covering at least one minterm of M.
C12_EssentialsAreUniqueCovers ==
  (entry = "solve" /\ qpc \in {"find_minimal_cover", "done"}) =>
    /\ PatternsOf(essential_pis) = UniquelyCovering(PatternsOf(prime_implicants))
    /\ qpc = "done" =>
         SeqToSet(qm_result.essential_prime_implicants)
           = {format_single_implicant(ess) : ess \in
                {p \in SeqToSet(prime_implicants) :
                   p.bits \in UniquelyCovering(PatternsOf(prime_implicants))}}

\* C19: reduce_qm, called on the list it returned (same n_variables, same
\* encoding, same one-pass reducer), returns that list again.
C19_ReduceQmIsIdempotent ==
  (entry = "reduce_qm" /\ qpc = "done") =>
    /\ reduced = reduce_qm(minterms_input, variables, E, use_classic_method)
    /\ reduce_qm(reduced, variables, E, use_classic_method) = reduced

\* a call that needed combining passes and returned several implicants, on
\* which the second call is a fixed point
C19_Witness ==
  /\ ReduceDone
  /\ Len(reduced) >= 2
  /\ reduced # minterms_input
  /\ \E k \in 1..Len(reduced) : Cardinality(dc_of(reduced[k])) >= 2
  /\ reduce_qm(reduced, variables, E, use_classic_method) = reduced

\* C28: for every list of minterms below 2^n_variables, in any order and
\* with duplicates, and for both one-pass reducers, the loop of reduce_qm
\* makes at most n_variables + 2 passes: the pass count never exceeds that
\* number and the pass of that number, if made, finds the fixed point.
C28_ReduceQmTerminates ==
  (entry = "reduce_qm" /\ qpc \in {"reduce", "done"} /\ variables <= MAX_VARS(E)) =>
    /\ iteration <= variables + 2
    /\ iteration = variables + 2 => fixed_point
    /\ qpc = "done" => fixed_point

\* a call on an unsorted list with duplicates that needed a pass for every
\* variable and one more to see the fixed point
C28_Witness ==
  /\ ReduceDone
  /\ variables = NSmall
  /\ iteration > variables
  /\ \E i, j \in 1..Len(minterms_input) : i < j /\ minterms_input[i] = minterms_input[j]

\* an implicant word of n variables with its don't-care half at `offset`:
\* no position is both data and don't-care, nothing lies at or above n
WellFormedValue(value, offset, n) ==
  LET data == Truncate(value, offset)
      dont_care == Shr(value, offset)
  IN /\ data \cap dont_care = {}
     /\ data \subseteq 0..(n - 1)
     /\ dont_care \subseteq 0..(n - 1)

\* C15: every implicant value the reducers produce (the list of reduce_qm
\* after the minterms are taken and after every pass, and every raw value
\* that find_prime_implicants gets from combining a gray-code pair) has no
\* position whose data bit and don't-care bit are both 1 and has no bit at
\* a position >= n_variables in either half.
C15_DataAndDontCareDisjoint ==
  /\ (entry = "reduce_qm" /\ qpc \in {"reduce", "done"} /\ variables <= MAX_VARS(E)) =>
       \A k \in 1..Len(minterms) : WellFormedValue(minterms[k], DK_OFFSET(E), variables)
  /\ (entry = "solve" /\ qpc = "find_prime_implicants") =>
       \A key \in level_pass(current_level, variables, E).keys :
          WellFormedValue(key, variables, variables)

(***************************************************************************)
(* The gray-code pair kernels of simd_gray_code.rs, reached through        *)
(* E::find_gray_code_pairs: u32 values for Enc16, u64 for Enc32, u128 for  *)
(* Enc64.  A result is the Vec of pairs in push order, or the process      *)
(* killed by an instruction the CPU does not have.                         *)
(***************************************************************************)
\* number of bit positions the enumerated raw encodings are built from
GrayBits == 5

GrayResult(p, killed) == [pairs |-> p, ill |-> killed]

\* for &j in group2_indices from position j_pos on: the scalar inner loop
\* and the remainder loop of the SIMD kernels; the pairs are pushed in the
\* order of group2
gray_scalar_j(i_idx, group2, raw_encodings, j_pos, acc) ==
  LET hits == SelectSeq(SubSeq(group2, j_pos, Len(group2)),
                        LAMBDA j_idx : Cardinality(Xor(raw_encodings[i_idx],
                                                       raw_encodings[j_idx])) = 1)
  IN acc \o [k \in 1..Len(hits) |-> <<i_idx, hits[k]>>]

RECURSIVE find_gray_code_pairs_scalar(_, _, _, _, _)
find_gray_code_pairs_scalar(group1, group2, raw_encodings, i_pos, acc) ==
  IF i_pos > Len(group1) THEN acc
  ELSE find_gray_code_pairs_scalar(group1, group2, raw_encodings, i_pos + 1,
         gray_scalar_j(group1[i_pos], group2, raw_encodings, 1, acc))

\* popcount of the XOR as the vector code computes it: one popcount per
\* lane for u32 and u64, the sum of the popcounts of the two 64-bit halves
\* for u128
lane_popcount(raw_i, raw_j, e) ==
  IF e = "Enc64"
  THEN Cardinality(Xor(Truncate(raw_i, 64), Truncate(raw_j, 64)))
       + Cardinality(Xor(Shr(raw_i, 64), Shr(raw_j, 64)))
  ELSE Cardinality(Xor(raw_i, raw_j))

\* for lane in 0..LANES: push the pairs whose mask bit is set, in lane order
gray_lanes(i_idx, group2, raw_encodings, j_pos, lane, LANES, e, acc) ==
  LET hits == SelectSeq(SubSeq(group2, j_pos + lane, j_pos + LANES - 1),
                        LAMBDA j_idx : lane_popcount(raw_encodings[i_idx],
                                                     raw_encodings[j_idx], e) = 1)
  IN acc \o [k \in 1..Len(hits) |-> <<i_idx, hits[k]>>]

RECURSIVE gray_blocks(_, _, _, _, _, _, _)
\* while j_pos + LANES <= len: one vector per step; then the remainder
gray_blocks(i_idx, group2, raw_encodings, j_pos, LANES, e, acc) ==
  IF j_pos - 1 + LANES <= Len(group2)
  THEN gray_blocks(i_idx, group2, raw_encodings, j_pos + LANES, LANES, e,
                   gray_lanes(i_idx, group2, raw_encodings, j_pos, 0, LANES, e, acc))
  ELSE gray_scalar_j(i_idx, group2, raw_encodings, j_pos, acc)

RECURSIVE gray_simd(_, _, _, _, _, _, _)
gray_simd(group1, group2, raw_encodings, i_pos, LANES, e, acc) ==
  IF i_pos > Len(group1) THEN acc
  ELSE gray_simd(group1, group2, raw_encodings, i_pos + 1, LANES, e,
                 gray_blocks(group1[i_pos], group2, raw_encodings, 1, LANES, e, acc))

gray_detected(features) == "avx512f" \in features /\ "avx512vpopcntdq" \in features

find_gray_code_pairs_avx512_u32(group1, group2, raw_encodings, features) ==
  IF ~gray_detected(features)
  THEN GrayResult(find_gray_code_pairs_scalar(group1, group2, raw_encodings, 1, <<>>), FALSE)
  ELSE GrayResult(gray_simd(group1, group2, raw_encodings, 1, 16, "Enc16", <<>>), FALSE)

find_gray_code_pairs_avx512_u64(group1, group2, raw_encodings, features) ==
  IF ~gray_detected(features)
  THEN GrayResult(find_gray_code_pairs_scalar(group1, group2, raw_encodings, 1, <<>>), FALSE)
  ELSE GrayResult(gray_simd(group1, group2, raw_encodings, 1, 8, "Enc32", <<>>), FALSE)

\* the u128 kernel works on 256-bit vectors: _mm256_loadu_epi64 and
\* _mm256_popcnt_epi64 are AVX-512VL instructions, and the function tests
\* avx512f and avx512vpopcntdq only; the vector loop is entered when group1
\* is not empty and group2 holds at least LANES = 4 indices
find_gray_code_pairs_avx512_u128(group1, group2, raw_encodings, features) ==
  IF ~gray_detected(features)
  THEN GrayResult(find_gray_code_pairs_scalar(group1, group2, raw_encodings, 1, <<>>), FALSE)
  ELSE IF "avx512vl" \notin features /\ Len(group1) > 0 /\ Len(group2) >= 4
  THEN GrayResult(<<>>, TRUE)
  ELSE GrayResult(gray_simd(group1, group2, raw_encodings, 1, 4, "Enc64", <<>>), FALSE)

\* bit positions spread over both halves of the value type of encoding e
GrayPositions(e) ==
  {k * (VALUE_BITS(e) \div GrayBits) : k \in 0..(GrayBits - 2)} \cup {VALUE_BITS(e) - 1}

GrayWords(e) == SortWords(SUBSET GrayPositions(e))

\* lengths of group2 around the lane counts 4, 8 and 16
GrayLengths == {0, 1, 3, 4, 5, 7, 8, 9, 15, 16, 17}

RECURSIVE IndexRun(_, _)
\* the indices start, start + 1, ... as a Vec of the given length
IndexRun(start, len) == IF len = 0 THEN <<>> ELSE <<start>> \o IndexRun(start + 1, len - 1)

\* processors without AVX-512, with AVX-512F only (Knights Landing), with
\* AVX-512F and VPOPCNTDQ but without AVX-512VL (Knights Mill), and with
\* all of them (Ice Lake and later)
GrayCpuModels ==
  {{}, {"avx2", "avx512f"}, {"avx2", "avx512f", "avx512vpopcntdq"},
   {"avx2", "avx512f", "avx512bw", "avx512vl", "avx512vpopcntdq"}}

InitGray ==
  /\ E \in Encodings
  /\ cpu_features \in GrayCpuModels
  /\ gray_encodings = GrayWords(E)
  /\ gray_group1 \in {<<>>, <<1>>, <<2, Len(GrayWords(E))>>, <<4, 4, 6>>}
  /\ gray_group2 \in {IndexRun(start, len) : start \in {1, 2, 10}, len \in GrayLengths}
  /\ gray_pc = "call"
  /\ gray_pairs = <<>>
  /\ CnfIdle
  /\ KernelIdle
  /\ QmIdle
  /\ MsIdle
  /\ PtIdle
  /\ ApiIdle

\* Enc16::find_gray_code_pairs
FindGrayCodePairsEnc16 ==
  /\ gray_pc = "call"
  /\ E = "Enc16"
  /\ LET r == find_gray_code_pairs_avx512_u32(gray_group1, gray_group2, gray_encodings,
                                              cpu_features)
     IN /\ gray_pairs' = r.pairs
        /\ gray_pc' = IF r.ill THEN "killed" ELSE "done"
  /\ UNCHANGED <<gray_group1, gray_group2, gray_encodings>>
  /\ UNCHANGED <<env_vars, cnf_vars, kernel_vars, qm_vars, ms_vars, pt_vars, api_vars>>

\* Enc32::find_gray_code_pairs
FindGrayCodePairsEnc32 ==
  /\ gray_pc = "call"
  /\ E = "Enc32"
  /\ LET r == find_gray_code_pairs_avx512_u64(gray_group1, gray_group2, gray_encodings,
                                              cpu_features)
     IN /\ gray_pairs' = r.pairs
        /\ gray_pc' = IF r.ill THEN "killed" ELSE "done"
  /\ UNCHANGED <<gray_group1, gray_group2, gray_encodings>>
  /\ UNCHANGED <<env_vars, cnf_vars, kernel_vars, qm_vars, ms_vars, pt_vars, api_vars>>

\* Enc64::find_gray_code_pairs
FindGrayCodePairsEnc64 ==
  /\ gray_pc = "call"
  /\ E = "Enc64"
  /\ LET r == find_gray_code_pairs_avx512_u128(gray_group1, gray_group2, gray_encodings,
                                               cpu_features)
     IN /\ gray_pairs' = r.pairs
        /\ gray_pc' = IF r.ill THEN "killed" ELSE "done"
  /\ UNCHANGED <<gray_group1, gray_group2, gray_encodings>>
  /\ UNCHANGED <<env_vars, cnf_vars, kernel_vars, qm_vars, ms_vars, pt_vars, api_vars>>

NextGray ==
  \/ FindGrayCodePairsEnc16
  \/ FindGrayCodePairsEnc32
  \/ FindGrayCodePairsEnc64

SpecGray == InitGray /\ [][NextGray]_vars

\* the pairs (i, j) of group1 x group2 with popcount(R[i] XOR R[j]) = 1
GrayReference ==
  {<<i, j>> : i \in SeqToSet(gray_group1), j \in SeqToSet(gray_group2)} \cap
  {p \in (1..Len(gray_encodings)) \X (1..Len(gray_encodings)) :
     Cardinality(Xor(gray_encodings[p[1]], gray_encodings[p[2]])) = 1}

\* C11: for every group1, group2 and R, the kernel of every value width
\* returns, on every processor, exactly the pairs (i, j) of group1 x group2
\* whose encodings differ in one bit, whatever the length of group2.
C11_GrayKernelsAgreeWithScalar ==
  gray_pc # "call" =>
    /\ gray_pc = "done"
    /\ SeqToSet(gray_pairs) = GrayReference

(***************************************************************************)
(* A MintermSet under any sequence of add and add_all.                     *)
(***************************************************************************)
\* the values added have their ones among the lowest MsBits positions of
\* each half
MsBits == 2

\* a set holds at most this many values
MsMaxElements == 3

MsValues(e) ==
  {d \cup Shl(c, DK_OFFSET(e), VALUE_BITS(e)) : d \in SUBSET (0..(MsBits - 1)),
                                                c \in SUBSET (0..(MsBits - 1))}

MsSize ==
  Cardinality({p \in (DOMAIN ms_data) \X (1..MsMaxElements) : p[2] <= Len(ms_data[p[1]])})

\* MintermSet::<E>::new()
InitMintermSet ==
  /\ E \in Encodings
  /\ cpu_features = {}
  /\ ms_data = MintermSet_new(E).data
  /\ ms_max_bit_count = MintermSet_new(E).max_bit_count
  /\ ms_pc = "new"
  /\ CnfIdle
  /\ KernelIdle
  /\ QmIdle
  /\ GrayIdle
  /\ PtIdle
  /\ ApiIdle

\* set.add(value)
MintermSetAdd ==
  /\ ms_pc = "new"
  /\ MsSize < MsMaxElements
  /\ \E value \in MsValues(E) :
        LET set == add([data |-> ms_data, max_bit_count |-> ms_max_bit_count], value)
        IN /\ ms_data' = set.data
           /\ ms_max_bit_count' = set.max_bit_count
  /\ UNCHANGED ms_pc
  /\ UNCHANGED <<env_vars, cnf_vars, kernel_vars, qm_vars, gray_vars, pt_vars, api_vars>>

\* set.add_all(values), with two values
MintermSetAddAll ==
  /\ ms_pc = "new"
  /\ MsSize + 2 <= MsMaxElements
  /\ \E values \in MsValues(E) \X MsValues(E) :
        LET set == add_all([data |-> ms_data, max_bit_count |-> ms_max_bit_count], values)
        IN /\ ms_data' = set.data
           /\ ms_max_bit_count' = set.max_bit_count
  /\ UNCHANGED ms_pc
  /\ UNCHANGED <<env_vars, cnf_vars, kernel_vars, qm_vars, gray_vars, pt_vars, api_vars>>

NextMintermSet ==
  \/ MintermSetAdd
  \/ MintermSetAddAll

SpecMintermSet == InitMintermSet /\ [][NextMintermSet]_vars

\* C20: after any sequence of add and add_all, every element of bucket k
\* has exactly k ones in its data half (the low DK_OFFSET bits), also when
\* its don't-care half is not zero.
C20_BucketIsDataPopcount ==
  ms_pc = "new" =>
    \A k \in DOMAIN ms_data : \A i \in 1..Len(ms_data[k]) :
       Cardinality(Truncate(ms_data[k][i], DK_OFFSET(E))) = k

(***************************************************************************)
(* petrick_simplify on the primes reduce_qm returns for a set of minterms. *)
(***************************************************************************)
\* the cyclic function of three variables: every minterm lies in two primes
\* and no prime is essential
Cyc6 == {{}, {0}, {1}, {0, 2}, {1, 2}, {0, 1, 2}}

\* copies of it are placed at code words of CycleBits further variables
CycleBits == 5

CycleCopies == 11

CyclicVariables == NSmall + CycleBits

\* the first CycleCopies words of even parity: no two of them are adjacent
CycleWords ==
  LET even == SortWords({c \in SUBSET (0..(CycleBits - 1)) : Cardinality(c) % 2 = 0})
  IN {even[k] : k \in 1..CycleCopies}

CyclicMinterms == {m \cup Shl(c, 3, CyclicVariables) : m \in Cyc6, c \in CycleWords}

PtNext(position) ==
  CASE position = "primary_essential" -> "row_dominance_3"
    [] position = "row_dominance_3" -> "column_dominance_4"
    [] position = "column_dominance_4" -> "secondary_essential"
    [] position = "secondary_essential" -> "row_dominance_6"
    [] position = "row_dominance_6" -> "column_dominance_7"
    [] OTHER -> "residue"

\* every set of minterms of NSmall variables and the copies of the cyclic
\* function, with the primes of reduce_qm, both residue options, both builds
InitPetrick ==
  /\ E \in Encodings
  /\ cpu_features = {}
  /\ \E M \in (SUBSET Minterms(NSmall)) \cup {CyclicMinterms} :
        /\ pt_minterms = SortWords(M)
        /\ pt_prime_implicants = reduce_qm(SortWords(M), CyclicVariables, E, TRUE)
  /\ use_petrick_cnf2dnf \in BOOLEAN
  /\ overflow_checks \in BOOLEAN
  /\ pt_pc = "create_prime_implicant_table"
  /\ pi_table1 = <<>>
  /\ pi_table = <<>>
  /\ primary_essential_pi = <<>>
  /\ secondary_essential_pi = <<>>
  /\ essential_pi = <<>>
  /\ pt_stderr = "none"
  /\ dominance_input = <<>>
  /\ CnfIdle
  /\ KernelIdle
  /\ QmIdle
  /\ GrayIdle
  /\ MsIdle
  /\ ApiIdle

\* step 1
CreatePrimeImplicantTable ==
  /\ pt_pc = "create_prime_implicant_table"
  /\ IF overflow_checks /\ shift_overflows(E) /\ pt_prime_implicants # <<>>
     THEN /\ pt_pc' = "panicked"
          /\ UNCHANGED pi_table1
     ELSE /\ pi_table1' = create_prime_implicant_table(pt_prime_implicants, pt_minterms, E)
          /\ pt_pc' = "primary_essential"
  /\ UNCHANGED <<pt_prime_implicants, pt_minterms, use_petrick_cnf2dnf, overflow_checks,
                 pi_table, primary_essential_pi, secondary_essential_pi, essential_pi,
                 pt_stderr, dominance_input>>
  /\ UNCHANGED <<env_vars, cnf_vars, kernel_vars, qm_vars, gray_vars, ms_vars, api_vars>>

\* steps 2 and 5; the Vec returned is the HashSet in its iteration order
IdentifyPrimaryEssentialPi2 ==
  /\ pt_pc \in {"primary_essential", "secondary_essential"}
  /\ LET r == identify_primary_essential_pi2(IF pt_pc = "primary_essential"
                                             THEN convert(pi_table1) ELSE pi_table)
     IN /\ pi_table' = r.pi_table_out
        /\ \E order \in IterationOrders(r.selected_pi) :
              IF pt_pc = "primary_essential"
              THEN /\ primary_essential_pi' = order
                   /\ UNCHANGED secondary_essential_pi
              ELSE /\ secondary_essential_pi' = order
                   /\ UNCHANGED primary_essential_pi
  /\ pt_pc' = PtNext(pt_pc)
  /\ UNCHANGED <<pt_prime_implicants, pt_minterms, use_petrick_cnf2dnf, overflow_checks,
                 pi_table1, essential_pi, pt_stderr, dominance_input>>
  /\ UNCHANGED <<env_vars, cnf_vars, kernel_vars, qm_vars, gray_vars, ms_vars, api_vars>>

\* steps 3 and 6; dominance_input is the table the stage was called with
RowDominance ==
  /\ pt_pc \in {"row_dominance_3", "row_dominance_6"}
  /\ dominance_input' = pi_table
  /\ pi_table' = row_dominance(pi_table)
  /\ pt_pc' = PtNext(pt_pc)
  /\ UNCHANGED <<pt_prime_implicants, pt_minterms, use_petrick_cnf2dnf, overflow_checks,
                 pi_table1, primary_essential_pi, secondary_essential_pi, essential_pi,
                 pt_stderr>>
  /\ UNCHANGED <<env_vars, cnf_vars, kernel_vars, qm_vars, gray_vars, ms_vars, api_vars>>

\* steps 4 and 7
ColumnDominance ==
  /\ pt_pc \in {"column_dominance_4", "column_dominance_7"}
  /\ dominance_input' = pi_table
  /\ pi_table' = column_dominance(pi_table)
  /\ pt_pc' = PtNext(pt_pc)
  /\ UNCHANGED <<pt_prime_implicants, pt_minterms, use_petrick_cnf2dnf, overflow_checks,
                 pi_table1, primary_essential_pi, secondary_essential_pi, essential_pi,
                 pt_stderr>>
  /\ UNCHANGED <<env_vars, cnf_vars, kernel_vars, qm_vars, gray_vars, ms_vars, api_vars>>

\* the primes left in the table
RemainingPrimes == UNION {pi_table[mt] : mt \in DOMAIN pi_table}

\* petricks_method is called on a table that is not empty when
\* use_petrick_cnf2dnf is set
PetricksMethodCalled == use_petrick_cnf2dnf /\ DOMAIN pi_table # {}

\* the rest of petrick_simplify: the residue, the essentials, the return
PetrickReturn ==
  /\ pt_pc = "residue"
  /\ \E translation2 \in
          (IF PetricksMethodCalled /\ Cardinality(RemainingPrimes) <= MAX_PETRICK_VARIABLES
           THEN translations(pi_table) ELSE {<<>>}) :
        LET petricks == petricks_method(pi_table, translation2, cpu_features)
        IN IF PetricksMethodCalled /\ petricks.ill
           THEN /\ pt_pc' = "killed"
                /\ UNCHANGED <<essential_pi, pt_stderr>>
           ELSE /\ essential_pi' = petrick_residue(pi_table, use_petrick_cnf2dnf, petricks,
                                                   primary_essential_pi,
                                                   secondary_essential_pi)
                /\ pt_stderr' = (IF PetricksMethodCalled THEN petricks.stderr ELSE "none")
                /\ pt_pc' = "done"
  /\ UNCHANGED <<pt_prime_implicants, pt_minterms, use_petrick_cnf2dnf, overflow_checks,
                 pi_table1, pi_table, primary_essential_pi, secondary_essential_pi,
                 dominance_input>>
  /\ UNCHANGED <<env_vars, cnf_vars, kernel_vars, qm_vars, gray_vars, ms_vars, api_vars>>

NextPetrick ==
  \/ CreatePrimeImplicantTable
  \/ IdentifyPrimaryEssentialPi2
  \/ RowDominance
  \/ ColumnDominance
  \/ PetrickReturn

SpecPetrick == InitPetrick /\ [][NextPetrick]_vars

\* C13: when more than 64 primes remain in the table at the residue, a
\* call that returns has selected all of them (the greedy union); the only
\* other outcome is a call that does not return a selection.
C13_TooManyPrimesFailOrUnion ==
  (pt_pc = "done" /\ Cardinality(RemainingPrimes) > MAX_PETRICK_VARIABLES) =>
    RemainingPrimes \subseteq SeqToSet(essential_pi)

\* C14: for every encoding the table of step 1 exists and maps each prime p
\* to exactly the supplied minterms m with (m | dc(p)) = (data(p) | dc(p)),
\* data and dc being the low and the high DK_OFFSET bits of p.
C14_TableIsCoverRelation ==
  pt_pc \notin {"idle", "create_prime_implicant_table"} =>
    /\ pt_pc # "panicked"
    /\ DOMAIN pi_table1 = SeqToSet(pt_prime_implicants)
    /\ \A p \in DOMAIN pi_table1 :
          pi_table1[p] = {m \in SeqToSet(pt_minterms) : MatchesWord(p, m)}

\* the selection when every HashSet is iterated in increasing order
SortedSelection ==
  petrick_residue(pi_table, use_petrick_cnf2dnf,
                  petricks_method(pi_table,
                                  sorted_translation_for(pi_table, SortWords(DOMAIN pi_table),
                                                         1, <<>>),
                                  cpu_features),
                  primary_essential_pi, secondary_essential_pi)

\* C18: the primes petrick_simplify returns for given primes and minterms
\* are the same set in every run: the set it returns when its hash sets are
\* iterated in increasing order.
C18_SelectionIsDeterministic ==
  pt_pc = "done" => SeqToSet(essential_pi) = SeqToSet(SortedSelection)

(***************************************************************************)
(* The dominance stages on their own, on every small table.                *)
(***************************************************************************)
\* the rows and the primes of the tables
DominanceRows == {{}, {0}, {1}}

DominancePrimes == {{0}, {1}, {0, 1}, {2}}

\* every table whose rows each have a prime
DominanceTables ==
  UNION {[rows -> (SUBSET DominancePrimes) \ {{}}] : rows \in SUBSET DominanceRows}

InitDominance ==
  /\ E = "Enc16"
  /\ cpu_features = {}
  /\ pt_prime_implicants = <<>>
  /\ pt_minterms = <<>>
  /\ use_petrick_cnf2dnf = FALSE
  /\ overflow_checks = FALSE
  /\ pt_pc \in {"row_dominance_3", "column_dominance_4"}
  /\ pi_table1 = <<>>
  /\ pi_table \in DominanceTables
  /\ primary_essential_pi = <<>>
  /\ secondary_essential_pi = <<>>
  /\ essential_pi = <<>>
  /\ pt_stderr = "none"
  /\ dominance_input = <<>>
  /\ CnfIdle
  /\ KernelIdle
  /\ QmIdle
  /\ GrayIdle
  /\ MsIdle
  /\ ApiIdle

NextDominance ==
  \/ RowDominance
  \/ ColumnDominance

SpecDominance == InitDominance /\ [][NextDominance]_vars

\* the primes that occur in a table
TablePrimes(table) == UNION {table[mt] : mt \in DOMAIN table}

\* every row of the table has one of the primes
Covers(table, primes) == \A mt \in DOMAIN table : table[mt] \cap primes # {}

\* the size of the smallest cover of the table, -1 when it has none
MinimumCover(table) ==
  LET sizes == {Cardinality(primes) : primes \in {c \in SUBSET TablePrimes(table) :
                                                   Covers(table, c)}}
  IN IF sizes = {} THEN -1 ELSE CHOOSE k \in sizes : \A other \in sizes : k <= other

\* the tables for which the covers are enumerated
MaxCoverPrimes == 8

\* the output table keeps the covers of the input table
KeepsMinimumCovers(input, output) ==
  /\ \A primes \in SUBSET TablePrimes(input) :
        Covers(output, primes) => Covers(input, primes)
  /\ MinimumCover(output) = MinimumCover(input)
  /\ \A mt \in DOMAIN output : output[mt] # {}

\* C27: in every row dominance and every column dominance stage, every set
\* of primes that covers all rows of the stage's output table covers all
\* rows of its input table, the smallest cover of the output table is as
\* large as the smallest cover of the input table, and no row of the output
\* is left without a prime.
C27_DominanceKeepsMinimumCovers ==
  [][(/\ pt_pc \in {"row_dominance_3", "column_dominance_4",
                    "row_dominance_6", "column_dominance_7"}
      /\ Cardinality(TablePrimes(pi_table)) <= MaxCoverPrimes)
       => KeepsMinimumCovers(pi_table, pi_table')]_vars

\* a column dominance that deleted a prime from a table of three rows that
\* needs two primes
C27_Witness ==
  /\ pt_pc = "secondary_essential"
  /\ TablePrimes(pi_table) # TablePrimes(dominance_input)
  /\ Cardinality(DOMAIN dominance_input) = 3
  /\ MinimumCover(pi_table) = 2

(***************************************************************************)
(* The three one-pass reducers, each called on its own on a list of        *)
(* implicants.                                                             *)
(***************************************************************************)
\* the implicants have their data and don't-care bits among the lowest
\* OnePassBits positions of each half
OnePassBits == 2

\* the lists hold at most this many implicants
OnePassMaxLen == 3

OnePassValues(e) ==
  {d \cup Shl(c, DK_OFFSET(e), VALUE_BITS(e)) : d \in SUBSET (0..(OnePassBits - 1)),
                                                c \in SUBSET (0..(OnePassBits - 1))}

\* every list, in any order and with duplicates, for every reducer
InitOnePass ==
  /\ E \in Encodings
  /\ cpu_features = {}
  /\ entry \in {"reduce_minterms", "reduce_minterms_classic",
                "reduce_minterms_with_early_pruning"}
  /\ minterms_input \in SeqsUpTo(OnePassValues(E), OnePassMaxLen)
  /\ variables = OnePassBits
  /\ minterms = <<>>
  /\ dont_cares = <<>>
  /\ use_classic_method = FALSE
  /\ qpc = "call"
  /\ current_level = <<>>
  /\ QmCallInit
  /\ CnfIdle
  /\ KernelIdle
  /\ AuxIdle

ReduceMinterms ==
  /\ qpc = "call"
  /\ entry = "reduce_minterms"
  /\ reduced' = reduce_minterms(minterms_input, E)
  /\ qpc' = "returned"
  /\ UNCHANGED <<iteration, entry, variables, minterms, dont_cares, minterms_input, use_classic_method,
                 current_level, found, fixed_point, prime_implicants, essential_pis,
                 minimal_cover, qm_result, qm_stderr>>
  /\ UNCHANGED <<env_vars, cnf_vars, kernel_vars, aux_vars>>

ReduceMintermsClassic ==
  /\ qpc = "call"
  /\ entry = "reduce_minterms_classic"
  /\ reduced' = reduce_minterms_classic(minterms_input, E)
  /\ qpc' = "returned"
  /\ UNCHANGED <<iteration, entry, variables, minterms, dont_cares, minterms_input, use_classic_method,
                 current_level, found, fixed_point, prime_implicants, essential_pis,
                 minimal_cover, qm_result, qm_stderr>>
  /\ UNCHANGED <<env_vars, cnf_vars, kernel_vars, aux_vars>>

ReduceMintermsWithEarlyPruning ==
  /\ qpc = "call"
  /\ entry = "reduce_minterms_with_early_pruning"
  /\ reduced' = reduce_minterms_with_early_pruning(minterms_input, E)
  /\ qpc' = "returned"
  /\ UNCHANGED <<iteration, entry, variables, minterms, dont_cares, minterms_input, use_classic_method,
                 current_level, found, fixed_point, prime_implicants, essential_pis,
                 minimal_cover, qm_result, qm_stderr>>
  /\ UNCHANGED <<env_vars, cnf_vars, kernel_vars, aux_vars>>

NextOnePass ==
  \/ ReduceMinterms
  \/ ReduceMintermsClassic
  \/ ReduceMintermsWithEarlyPruning

SpecOnePass == InitOnePass /\ [][NextOnePass]_vars

\* C26: on every list of implicants each of the three one-pass reducers
\* returns the set of implicants the plain bucketed reducer returns.
C26_OnePassReducersAgree ==
  qpc = "returned" => SeqToSet(reduced) = SeqToSet(reduce_minterms(minterms_input, E))

\* the pruning reducer on a list in which it combines a pair and prunes: the
\* upper bucket holds two implicants more than two bits apart
C26_Witness ==
  /\ qpc = "returned"
  /\ entry = "reduce_minterms_with_early_pruning"
  /\ SeqToSet(reduced) # SeqToSet(minterms_input)
  /\ \E i, j, k \in 1..Len(minterms_input) :
        /\ is_gray_code(minterms_input[i], minterms_input[j])
        /\ Cardinality(minterms_input[j]) = Cardinality(minterms_input[i]) + 1
        /\ j < k
        /\ Cardinality(minterms_input[k]) = Cardinality(minterms_input[j])
        /\ Cardinality(Xor(minterms_input[j], minterms_input[k])) > 2

(***************************************************************************)
(* convert_cnf_to_dnf_with_names.  A name is a number (the k-th name), a   *)
(* named CNF a list of lists of names.                                     *)
(***************************************************************************)
\* convert_cnf_to_dnf::<E, OPT> as a function of its arguments
convert_cnf_to_dnf(clauses, nbits, e, opt, features) ==
  IF nbits > MAX_VARS(e)
  THEN [dnf |-> <<>>, stderr |-> "n_bits exceeds encoding maximum", ill |-> FALSE]
  ELSE IF opt # "AutoDetect" /\ nbits > max_bits(opt)
  THEN [dnf |-> <<>>, stderr |-> "n_bits exceeds OptimizedFor maximum", ill |-> FALSE]
  ELSE LET level == IF opt = "AutoDetect" THEN detect_best(nbits, features) ELSE opt
           st == convert_cnf_to_dnf_impl(clauses, nbits, level, features)
       IN [dnf |-> st.result_dnf_next, stderr |-> "none", ill |-> st.ill]

RECURSIVE Flatten(_)
\* the names of a named CNF in the order in which the two loops visit them
Flatten(cnf_) == IF cnf_ = <<>> THEN <<>> ELSE Head(cnf_) \o Flatten(Tail(cnf_))

\* the names by increasing number
translation2_sorted(names) ==
  LET all == {names[i] : i \in 1..Len(names)}
      below(name) == Cardinality({other \in all : other < name})
  IN [k \in 1..Cardinality(all) |-> CHOOSE name \in all : below(name) = k - 1]

\* translation2 as the list of the names by variable number: a name gets
\* the next number when it is first seen
translation2_of(names) ==
  LET first_seen == SelectSeq([i \in 1..Len(names) |-> i],
                              LAMBDA i : \A j \in 1..(i - 1) : names[j] # names[i])
  IN [k \in 1..Len(first_seen) |-> names[first_seen[k]]]

\* translation1[var]
translation1_of(translation2, var) ==
  (CHOOSE k \in 1..Len(translation2) : translation2[k] = var) - 1

\* the names of the bits of a term, `for pos in 0..n_variables`
term_names(term, translation2) ==
  LET positions == SelectSeq([k \in 1..Len(translation2) |-> k - 1],
                             LAMBDA pos : test_bit(term, pos))
  IN [k \in 1..Len(positions) |-> translation2[positions[k] + 1]]

\* the number of names a u64 has bits for
MAX_NAMED_VARIABLES == 64

\* the function returns a Vec<Vec<String>>: there is no error value in
\* either of its returns
convert_cnf_to_dnf_with_names(cnf_, features) ==
  LET translation2 == translation2_of(Flatten(cnf_))
      n_variables == Len(translation2)
      cnf_translated == [k \in 1..Len(cnf_) |->
                           {translation1_of(translation2, cnf_[k][j]) : j \in 1..Len(cnf_[k])}]
      e == IF n_variables <= 16 THEN "Enc16"
           ELSE IF n_variables <= 32 THEN "Enc32" ELSE "Enc64"
      converted == convert_cnf_to_dnf(cnf_translated, n_variables, e, "AutoDetect", features)
  IN IF n_variables > MAX_NAMED_VARIABLES
     THEN [dnf |-> <<>>, error |-> "none", stderr |-> "too many different variables",
           ill |-> FALSE]
     ELSE [dnf |-> [k \in 1..Len(converted.dnf) |-> term_names(converted.dnf[k], translation2)],
           error |-> "none", stderr |-> converted.stderr, ill |-> converted.ill]

\* the names of the small CNFs, their clauses and their number of clauses
NamedVars == 3

NamedClauseLen == 2

NamedClauses == 2

\* the largest name of the wide CNFs
MaxWideName == 65

\* the clause of the first k names
FirstNames(k) == [j \in 1..k |-> j]

\* CNFs with as many names as there are bits in a u64, and with one more
WideCnfs ==
  {<<FirstNames(MAX_NAMED_VARIABLES)>>,
   <<FirstNames(MAX_NAMED_VARIABLES), <<1>>>>,
   <<FirstNames(MAX_NAMED_VARIABLES + 1)>>,
   <<FirstNames(MAX_NAMED_VARIABLES), <<MAX_NAMED_VARIABLES + 1>>>>}

SmallNamedCnfs ==
  SeqsUpTo(SeqsUpTo(1..NamedVars, NamedClauseLen) \ {<<>>}, NamedClauses)

InitNames ==
  /\ E = "Enc16"
  /\ cpu_features \in CpuModels
  /\ named_cnf \in SmallNamedCnfs \cup WideCnfs
  /\ named_pc = "call"
  /\ named_dnf = <<>>
  /\ named_error = "none"
  /\ named_stderr = "none"
  /\ SbIdle
  /\ CnfIdle
  /\ KernelIdle
  /\ QmIdle
  /\ GrayIdle
  /\ MsIdle
  /\ PtIdle

ConvertCnfToDnfWithNames ==
  /\ named_pc = "call"
  /\ LET returned == convert_cnf_to_dnf_with_names(named_cnf, cpu_features)
     IN IF returned.ill
        THEN /\ named_pc' = "killed"
             /\ UNCHANGED <<named_dnf, named_error, named_stderr>>
        ELSE /\ named_pc' = "done"
             /\ named_dnf' = returned.dnf
             /\ named_error' = returned.error
             /\ named_stderr' = returned.stderr
  /\ UNCHANGED named_cnf
  /\ UNCHANGED <<env_vars, cnf_vars, kernel_vars, qm_vars, gray_vars, ms_vars, pt_vars,
                 sb_vars>>

NextNames ==
  \/ ConvertCnfToDnfWithNames

SpecNames == InitNames /\ [][NextNames]_vars

\* the number of distinct names of the call
DistinctNames == Len(translation2_of(Flatten(named_cnf)))

\* the renamings: every permutation of the small names, and the move of
\* every name to a name that is not in use
Renamings ==
  {[name \in 1..(MaxWideName) |-> IF name <= NamedVars THEN p[name] ELSE name] :
     p \in {q \in [1..NamedVars -> 1..NamedVars] :
              \A i, j \in 1..NamedVars : i # j => q[i] # q[j]}}
    \cup {[name \in 1..(MaxWideName) |-> 2 * MaxWideName + 1 - name]}

\* r applied to every name of a list of lists of names
Rename(r, lists) ==
  [k \in 1..Len(lists) |-> [j \in 1..Len(lists[k]) |-> r[lists[k][j]]]]

\* C21: for every bijective renaming r, convert_cnf_to_dnf_with_names on
\* the renamed CNF returns the list it returns on the CNF itself with r
\* applied to every name.
C21_RenamingCommutes ==
  named_pc = "done" =>
    \A r \in Renamings :
       LET renamed == convert_cnf_to_dnf_with_names(Rename(r, named_cnf), cpu_features)
       IN /\ ~renamed.ill
          /\ renamed.dnf = Rename(r, named_dnf)

\* a call that returned several conjunctions for a CNF of two clauses whose
\* names were first seen in decreasing order
C21_Witness ==
  /\ named_pc = "done"
  /\ Len(named_cnf) = 2
  /\ Len(named_cnf[1]) = 2
  /\ named_cnf[1][1] > named_cnf[1][2]
  /\ Len(named_dnf) >= 2

\* C22: a call with more than 64 distinct names returns the error value
\* TooManyVariables and no clause; a call with exactly 64 distinct names
\* returns no error.
C22_TooManyVariablesIsAnError ==
  named_pc # "call" =>
    /\ DistinctNames > MAX_NAMED_VARIABLES => (named_pc = "done" /\ named_error = "TooManyVariables"
                              /\ named_dnf = <<>>)
    /\ DistinctNames = MAX_NAMED_VARIABLES => (named_pc = "done" /\ named_error = "none"
                              /\ named_stderr = "none" /\ named_dnf # <<>>)

(***************************************************************************)
(* The simplify module.  A BoolExpr is <<"Var", name>>, <<"Not", inner>>,  *)
(* <<"And", left, right>> or <<"Or", left, right>>; a branch is a          *)
(* condition and an output; a BranchSet is the branches and the default    *)
(* output ("None" when there is none).  The variables are Boolean.         *)
(***************************************************************************)
\* the names of the variables, one letter each, in the order of String
NameOrder == <<"a", "b">>

\* the outputs, in the order of String
OutputOrder == <<"0", "1", "2">>

RECURSIVE extract_variables(_)
extract_variables(expr) ==
  CASE expr[1] = "Var" -> {expr[2]}
    [] expr[1] = "Not" -> extract_variables(expr[2])
    [] OTHER -> extract_variables(expr[2]) \cup extract_variables(expr[3])

RECURSIVE evaluate(_, _)
\* a variable without an assignment is false
evaluate(expr, assignments) ==
  CASE expr[1] = "Var" ->
         IF expr[2] \in DOMAIN assignments THEN assignments[expr[2]] ELSE FALSE
    [] expr[1] = "Not" -> ~evaluate(expr[2], assignments)
    [] expr[1] = "And" -> evaluate(expr[2], assignments) /\ evaluate(expr[3], assignments)
    [] OTHER -> evaluate(expr[2], assignments) \/ evaluate(expr[3], assignments)

\* the variables of all conditions, sorted
sorted_variables(branch_set_) ==
  LET all_vars == UNION {extract_variables(branch_set_.branches[k].condition) :
                         k \in 1..Len(branch_set_.branches)}
  IN SelectSeq(NameOrder, LAMBDA name : name \in all_vars)

\* bit i of the minterm is the value of variables[i]
assignments_of(minterm, variables_) ==
  [name \in SeqToSet(variables_) |->
     \E i \in 1..Len(variables_) : variables_[i] = name /\ test_bit(minterm, i - 1)]

\* `for minterm in 0..total_rows`
all_rows(var_count) == SortWords(SUBSET (0..(var_count - 1)))

\* the index (from 1) of the first branch whose condition holds, 0 if none
first_match(branch_set_, assignments) ==
  LET matching == {k \in 1..Len(branch_set_.branches) :
                     evaluate(branch_set_.branches[k].condition, assignments)}
  IN IF matching = {} THEN 0 ELSE CHOOSE k \in matching : \A other \in matching : k <= other

\* the output of a row of the truth table, "None" for a don't-care
row_output(branch_set_, variables_, minterm) ==
  LET k == first_match(branch_set_, assignments_of(minterm, variables_))
  IN IF k > 0 THEN branch_set_.branches[k].output ELSE branch_set_.default_output

build_truth_table(branch_set_) ==
  LET variables_ == sorted_variables(branch_set_)
      var_count == Len(variables_)
      rows == all_rows(var_count)
      outputs == {row_output(branch_set_, variables_, rows[k]) : k \in 1..Len(rows)} \ {"None"}
  IN IF var_count = 0
     THEN [err |-> "No variables found in conditions"]
     ELSE IF var_count > 16
     THEN [err |-> "Too many variables"]
     ELSE [err |-> "none",
           variables |-> variables_,
           output_groups |->
             [out \in outputs |->
                SelectSeq(rows, LAMBDA m : row_output(branch_set_, variables_, m) = out)],
           dont_cares |->
             SelectSeq(rows, LAMBDA m : row_output(branch_set_, variables_, m) = "None")]

(***************************************************************************)
(* analyze_branches.                                                       *)
(***************************************************************************)
\* minterms_for_this_branch
minterms_covered(branch_set_, variables_, branch_idx) ==
  SelectSeq(all_rows(Len(variables_)),
            LAMBDA m : evaluate(branch_set_.branches[branch_idx + 1].condition,
                                assignments_of(m, variables_)))

RECURSIVE overlaps_from(_, _, _, _, _)
\* overlaps_with after the rows from k on: the earlier branches that cover a
\* row of this branch, each once, in the order in which they are found
overlaps_from(branch_set_, variables_, branch_idx, k, overlaps_with) ==
  LET covered == minterms_covered(branch_set_, variables_, branch_idx)
  IN IF k > Len(covered) THEN overlaps_with
     ELSE LET found_ == SelectSeq([j \in 1..branch_idx |-> j - 1],
                         LAMBDA prev_idx :
                           /\ covered[k] \in SeqToSet(minterms_covered(branch_set_, variables_,
                                                                         prev_idx))
                           /\ prev_idx \notin SeqToSet(overlaps_with))
          IN overlaps_from(branch_set_, variables_, branch_idx, k + 1, overlaps_with \o found_)

\* a branch is pushed to dead_branches only when it covers a minterm, so
\* the reason computed under that condition is FullyCovered
dead_branch_reported(minterms_for_this_branch, new_coverage) ==
  new_coverage = {} /\ minterms_for_this_branch # <<>>

analyze_branches(branch_set_) ==
  LET variables_ == sorted_variables(branch_set_)
      var_count == Len(variables_)
      n_branches == Len(branch_set_.branches)
      covered(branch_idx) == minterms_covered(branch_set_, variables_, branch_idx)
      covered_before(branch_idx) ==
        UNION {SeqToSet(covered(prev_idx)) : prev_idx \in 0..(branch_idx - 1)}
      new_coverage(branch_idx) == SeqToSet(covered(branch_idx)) \ covered_before(branch_idx)
      is_dead(branch_idx) == dead_branch_reported(covered(branch_idx), new_coverage(branch_idx))
      dead_indices == SelectSeq([j \in 1..n_branches |-> j - 1], LAMBDA idx : is_dead(idx))
      rows == all_rows(var_count)
  IN IF var_count = 0
     THEN [err |-> "No variables found in conditions"]
     ELSE IF var_count > 16
     THEN [err |-> "Too many variables"]
     ELSE [err |-> "none",
           branch_coverage |->
             [j \in 1..n_branches |->
                [branch_index |-> j - 1,
                 minterms_covered |-> covered(j - 1),
                 coverage_count |-> Cardinality(new_coverage(j - 1)),
                 overlaps_with |-> overlaps_from(branch_set_, variables_, j - 1, 1, <<>>)]],
           dead_branches |->
             [k \in 1..Len(dead_indices) |->
                [branch_index |-> dead_indices[k],
                 reason |-> IF covered(dead_indices[k]) = <<>> THEN "Contradiction"
                            ELSE "FullyCovered",
                 covered_by |-> overlaps_from(branch_set_, variables_, dead_indices[k], 1, <<>>)]],
           uncovered_minterms |->
             IF branch_set_.default_output = "None"
             THEN SelectSeq(rows, LAMBDA m : m \notin covered_before(n_branches))
             ELSE <<>>,
           \* total_coverage_percent is the quotient of these two
           covered_count |-> Cardinality(covered_before(n_branches)),
           total_rows |-> Len(rows)]

(***************************************************************************)
(* minimize_for_output: QMSolver::<Enc16>::solve with the names of the     *)
(* table, and the text of its expression parsed back.  A text is a list of *)
(* characters.                                                             *)
(***************************************************************************)
RECURSIVE find_prime_implicants_orders(_, _, _, _)
\* the prime lists find_prime_implicants can return: every next_level_map
\* is iterated in some order of its keys
find_prime_implicants_orders(level, primes, variables_, e) ==
  IF level = <<>> THEN {primes}
  ELSE LET pass == level_pass(level, variables_, e)
       IN UNION {find_prime_implicants_orders(next_level_of(pass, order, variables_),
                                              primes \o without_indices(level, pass.used, 1),
                                              variables_, e) :
                 order \in IterationOrders(pass.keys)}

\* self.variable_names[i] for implicant.get_bit(i): i counts the bits of the
\* implicant, which are stored most significant first (i is from 1 here)
name_of_bit(names, n_variables, i) == names[i]

RECURSIVE format_bits_named(_, _, _)
format_bits_named(implicant, names, i) ==
  IF i > Len(implicant.bits) THEN <<>>
  ELSE (CASE implicant.bits[i] = "Zero" -> <<name_of_bit(names, Len(implicant.bits), i), "'">>
          [] implicant.bits[i] = "One" -> <<name_of_bit(names, Len(implicant.bits), i)>>
          [] OTHER -> <<>>) \o format_bits_named(implicant, names, i + 1)

format_single_implicant_named(implicant, names) ==
  IF format_bits_named(implicant, names, 1) = <<>> THEN <<"1">>
  ELSE format_bits_named(implicant, names, 1)

RECURSIVE join_plus(_)
\* join(" + ")
join_plus(texts) ==
  IF Len(texts) = 1 THEN texts[1]
  ELSE texts[1] \o <<" ", "+", " ">> \o join_plus(Tail(texts))

format_expression_named(implicants, names) ==
  IF implicants = <<>> THEN <<"0">>
  ELSE join_plus([k \in 1..Len(implicants) |->
                    format_single_implicant_named(implicants[k], names)])

\* the texts solve can return as minimized_expression
minimized_expressions(var_count, names, minterms_, dont_cares_) ==
  {format_expression_named(find_minimal_cover(primes, minterms_), names) :
     primes \in find_prime_implicants_orders(first_level(minterms_, dont_cares_, var_count),
                                             <<>>, var_count, "Enc16")}

RECURSIVE split_plus(_, _, _)
\* expr.split(" + ") from character i on, `current` being the term so far
split_plus(text, i, current) ==
  IF i > Len(text) THEN <<current>>
  ELSE IF i + 2 <= Len(text) /\ text[i] = " " /\ text[i + 1] = "+" /\ text[i + 2] = " "
  THEN <<current>> \o split_plus(text, i + 3, <<>>)
  ELSE split_plus(text, i + 1, Append(current, text[i]))

\* char::is_alphabetic on the characters of the texts
is_alphabetic(ch) == ch \notin {" ", "+", "'", "0", "1"}

RECURSIVE parse_and_term(_, _, _, _)
\* the while loop of parse_and_term from character i on (from 1 here);
\* `result` is <<>> for None; the names have one letter, so the longest
\* name the rest starts with is its first letter
parse_and_term(chars, variables_, i, result) ==
  IF i > Len(chars)
  THEN IF result = <<>> THEN [err |-> "Failed to parse AND term"]
       ELSE [err |-> "none", expr |-> result]
  ELSE IF ~is_alphabetic(chars[i]) THEN parse_and_term(chars, variables_, i + 1, result)
  ELSE IF chars[i] \notin SeqToSet(variables_) THEN [err |-> "Unknown variable"]
  ELSE LET negated == i + 1 <= Len(chars) /\ chars[i + 1] = "'"
           var_expr == IF negated THEN <<"Not", <<"Var", chars[i]>>>> ELSE <<"Var", chars[i]>>
       IN parse_and_term(chars, variables_, IF negated THEN i + 2 ELSE i + 1,
                         IF result = <<>> THEN var_expr ELSE <<"And", result, var_expr>>)

RECURSIVE parse_or_terms(_, _, _, _)
\* the loop over or_terms from term k on
parse_or_terms(or_terms, variables_, k, result) ==
  IF k > Len(or_terms)
  THEN IF result = <<>> THEN [err |-> "Failed to parse expression"]
       ELSE [err |-> "none", expr |-> result]
  ELSE IF or_terms[k] = <<>> THEN parse_or_terms(or_terms, variables_, k + 1, result)
  ELSE LET and_expr == parse_and_term(or_terms[k], variables_, 1, <<>>)
       IN IF and_expr.err # "none" THEN and_expr
          ELSE parse_or_terms(or_terms, variables_, k + 1,
                              IF result = <<>> THEN and_expr.expr
                              ELSE <<"Or", result, and_expr.expr>>)

parse_qm_result(text, variables_) ==
  IF text = <<>> \/ text = <<"0">> THEN [err |-> "Empty expression"]
  ELSE parse_or_terms(split_plus(text, 1, <<>>), variables_, 1, <<>>)

\* the results minimize_for_output can return
minimize_for_output(table_, minterms_, dont_cares_) ==
  {IF text = <<"0">> THEN [err |-> "Contradiction: no valid conditions"]
   ELSE IF text = <<"1">>
   THEN [err |-> "none",
         expr |-> <<"Or", <<"Var", table_.variables[1]>>,
                          <<"Not", <<"Var", table_.variables[1]>>>>>>]
   ELSE parse_qm_result(text, table_.variables) :
   text \in minimized_expressions(Len(table_.variables), table_.variables,
                                  minterms_, dont_cares_)}

\* simplified_conditions.sort_by(|a, b| a.1.cmp(&b.1))
sort_by_output(conditions) ==
  LET outputs == SelectSeq(OutputOrder,
                           LAMBDA out : \E k \in 1..Len(conditions) : conditions[k][2] = out)
  IN [k \in 1..Len(outputs) |->
        conditions[CHOOSE j \in 1..Len(conditions) : conditions[j][2] = outputs[k]]]

(***************************************************************************)
(* simplify_branches on every short chain.                                 *)
(***************************************************************************)
\* the chains have at most this many branches
MaxBranches == 3

Literals == {<<"Var", "a">>, <<"Not", <<"Var", "a">>>>,
             <<"Var", "b">>, <<"Not", <<"Var", "b">>>>}

\* the literals, and the conjunctions and disjunctions of a literal of a
\* with a literal: among them a contradiction and a tautology
Conditions ==
  Literals
    \cup {<<"And", l, r>> : l \in {<<"Var", "a">>}, r \in Literals \ {<<"Var", "a">>}}
    \cup {<<"Or", l, r>> : l \in {<<"Var", "a">>}, r \in Literals \ {<<"Var", "a">>}}

Branches == [condition : Conditions, output : {"1", "2"}]

InitSimplify ==
  /\ E = "Enc16"
  /\ cpu_features = {}
  /\ branch_set \in [branches : SeqsUpTo(Branches, MaxBranches) \ {<<>>},
                     default_output : {"None", "0"}]
  /\ sb_pc = "analyze_branches"
  /\ analysis = <<>>
  /\ truth_table = <<>>
  /\ simplified_conditions = <<>>
  /\ sb_error = "none"
  /\ NamedIdle
  /\ CnfIdle
  /\ KernelIdle
  /\ QmIdle
  /\ GrayIdle
  /\ MsIdle
  /\ PtIdle

\* the first statement of simplify_branches
AnalyzeBranches ==
  /\ sb_pc = "analyze_branches"
  /\ analysis' = analyze_branches(branch_set)
  /\ IF analysis'.err # "none"
     THEN sb_error' = analysis'.err /\ sb_pc' = "returned_err"
     ELSE sb_error' = sb_error /\ sb_pc' = "build_truth_table"
  /\ UNCHANGED <<branch_set, truth_table, simplified_conditions>>
  /\ UNCHANGED <<env_vars, cnf_vars, kernel_vars, qm_vars, gray_vars, ms_vars, pt_vars,
                 named_vars>>

BuildTruthTable ==
  /\ sb_pc = "build_truth_table"
  /\ truth_table' = build_truth_table(branch_set)
  /\ IF truth_table'.err # "none"
     THEN sb_error' = truth_table'.err /\ sb_pc' = "returned_err"
     ELSE sb_error' = sb_error /\ sb_pc' = "minimize_for_output"
  /\ UNCHANGED <<branch_set, analysis, simplified_conditions>>
  /\ UNCHANGED <<env_vars, cnf_vars, kernel_vars, qm_vars, gray_vars, ms_vars, pt_vars,
                 named_vars>>

\* the outputs `for (output, minterms) in &table.output_groups` has yet to visit
RemainingOutputs ==
  (DOMAIN truth_table.output_groups)
    \ {simplified_conditions[k][2] : k \in 1..Len(simplified_conditions)}

\* one iteration of the loop over output_groups, a HashMap
MinimizeForOutput ==
  /\ sb_pc = "minimize_for_output"
  /\ \E output \in RemainingOutputs :
        \E minimized \in minimize_for_output(truth_table, truth_table.output_groups[output],
                                             truth_table.dont_cares) :
           IF minimized.err # "none"
           THEN /\ sb_error' = minimized.err
                /\ sb_pc' = "returned_err"
                /\ UNCHANGED simplified_conditions
           ELSE /\ simplified_conditions' =
                     Append(simplified_conditions, <<minimized.expr, output>>)
                /\ UNCHANGED <<sb_error, sb_pc>>
  /\ UNCHANGED <<branch_set, analysis, truth_table>>
  /\ UNCHANGED <<env_vars, cnf_vars, kernel_vars, qm_vars, gray_vars, ms_vars, pt_vars,
                 named_vars>>

\* the sort and the Ok(SimplificationResult)
SimplifyReturn ==
  /\ sb_pc = "minimize_for_output"
  /\ RemainingOutputs = {}
  /\ simplified_conditions' = sort_by_output(simplified_conditions)
  /\ sb_pc' = "done"
  /\ UNCHANGED <<branch_set, analysis, truth_table, sb_error>>
  /\ UNCHANGED <<env_vars, cnf_vars, kernel_vars, qm_vars, gray_vars, ms_vars, pt_vars,
                 named_vars>>

NextSimplify ==
  \/ AnalyzeBranches
  \/ BuildTruthTable
  \/ MinimizeForOutput
  \/ SimplifyReturn

SpecSimplify == InitSimplify /\ [][NextSimplify]_vars

\* the assignments of the variables of the chain
ChainAssignments ==
  {assignments_of(m, sorted_variables(branch_set)) :
     m \in SUBSET (0..(Len(sorted_variables(branch_set)) - 1))}

\* what the chain yields: the output of the first branch whose condition is
\* true, else the default, "None" when there is neither
ChainOutput(assignments) ==
  LET true_branches == {k \in 1..Len(branch_set.branches) :
                          evaluate(branch_set.branches[k].condition, assignments)}
  IN IF true_branches # {}
     THEN branch_set.branches[CHOOSE k \in true_branches :
                                \A other \in true_branches : k <= other].output
     ELSE branch_set.default_output

\* C23: for every assignment that a branch or the default matches, the
\* condition simplify_branches attaches to an output o is true exactly when
\* the chain yields o, the names of the condition being the names of the
\* chain; and every output the chain yields has a condition.
C23_SimplifiedConditionsAgree ==
  sb_pc = "done" =>
    \A assignments \in ChainAssignments :
       ChainOutput(assignments) # "None" =>
         /\ \A k \in 1..Len(simplified_conditions) :
               evaluate(simplified_conditions[k][1], assignments)
                 <=> (ChainOutput(assignments) = simplified_conditions[k][2])
         /\ \E k \in 1..Len(simplified_conditions) :
               simplified_conditions[k][2] = ChainOutput(assignments)

\* the assignments that satisfy the condition of branch i (from 0)
Satisfying(i) ==
  {assignments \in ChainAssignments :
     evaluate(branch_set.branches[i + 1].condition, assignments)}

\* no assignment reaches branch i under first-match evaluation
Unreachable(i) ==
  \A assignments \in Satisfying(i) :
     \E j \in 0..(i - 1) : assignments \in Satisfying(j)

\* the reports of branch i in dead_branches
DeadReports(i) ==
  {k \in 1..Len(analysis.dead_branches) : analysis.dead_branches[k].branch_index = i}

\* C24: analyze_branches reports branch i as dead exactly when every
\* assignment satisfying its condition satisfies an earlier branch; a branch
\* whose condition no assignment satisfies is reported with reason
\* Contradiction.
C24_DeadBranchesAreTheUnreachable ==
  (sb_pc \notin {"idle", "analyze_branches"} /\ analysis.err = "none") =>
    \A i \in 0..(Len(branch_set.branches) - 1) :
       /\ (DeadReports(i) # {}) <=> Unreachable(i)
       /\ Satisfying(i) = {} =>
            \E k \in DeadReports(i) : analysis.dead_branches[k].reason = "Contradiction"

(***************************************************************************)
(* The whole model: a call of any of the entry points.                     *)
(***************************************************************************)
Init ==
  \/ InitCnf \/ InitKernel \/ InitQM \/ InitGray \/ InitMintermSet \/ InitPetrick
  \/ InitOnePass \/ InitDominance \/ InitNames \/ InitSimplify

Next ==
  \/ NextCnf \/ NextKernel \/ NextQM \/ NextGray \/ NextMintermSet \/ NextPetrick
  \/ NextOnePass \/ NextDominance \/ NextNames \/ NextSimplify

Spec == Init /\ [][Next]_vars

====
